---- MODULE Spec2Model ----
(***************************************************************************)
(* PyViewer host (src/pyviewer.server.py): the session engine of           *)
(* RemoteDesktopServer as a state machine of its threads.                  *)
(*                                                                         *)
(* Threads: the server thread (run_server), the GUI thread (the handlers   *)
(* of ServerWindow), one thread per restart_ffmpeg_stream request, one     *)
(* media thread per pipeline start (stream_ffmpeg or stream_screen), the   *)
(* heartbeat thread of the session, and the viewers (the environment).     *)
(*                                                                         *)
(* A step is a group of consecutive statements of one thread, named in the *)
(* comment of its action. Grouping statements only removes interleavings:  *)
(* every behaviour of the model is an execution of the code under some     *)
(* schedule of its threads. join(timeout=...) is a step that waits for     *)
(* nothing; the run in which the joined thread ends in time is the one in  *)
(* which that thread is scheduled first.                                   *)
(*                                                                         *)
(* Several systems are composed from the same steps: Spec (one viewer, the *)
(* settings changed and the pipeline restarted while it is served),        *)
(* SpecStop (several viewers one after another, the host stopped from the  *)
(* GUI at any moment), SpecHost (a host with any set of capabilities       *)
(* serving one PyViewer client, src/pyviewer_client.py, whose Worker is a  *)
(* thread of the model), SpecControl (the control channel of a session:    *)
(* the listener and handler threads of the host, the Worker's sender, a    *)
(* client that writes arbitrary lines and a network that resets),          *)
(* SpecPointer (process_control_event applied to every mouse_move of a     *)
(* bounded set, on every monitor rectangle of a bounded set), SpecDispatch *)
(* (the first event of a control channel, of any handled or unhandled      *)
(* kind), SpecRoundTrip (the viewer's on_move followed by the host's       *)
(* dispatch, for every pixel of the captured picture), SpecFrames (the     *)
(* Legacy frame stream received in reads of any size), SpecSnapshot (the   *)
(* settings read by stream_ffmpeg while the GUI changes them), SpecSave    *)
(* (SpecStop with the configuration file, whose write may fail),           *)
(* SpecGeometry (an FFmpeg host whose monitor geometry was resolved by any *)
(* outcome of the capture provider), SpecHandlers (control connections     *)
(* made one after another, each with its handler thread), SpecMute (a      *)
(* Legacy session whose audio is muted and unmuted), SpecRate (the rate    *)
(* and quality sliders moved while a viewer is served) and SpecViewer (the *)
(* Worker of the client statement by statement, with disconnect() called   *)
(* from its own thread and from the GUI thread of the client).             *)
(*                                                                         *)
(* _restart_media_streams (lines 191-224) has no caller in the repository, *)
(* so no thread ever runs it and it has no action.                         *)
(***************************************************************************)
EXTENDS Integers, Sequences, FiniteSets, TLC

\* Viewers that connect during one run of the host.
MaxSessions == 2
\* Viewers that connect during a run in which the settings are changed.
LiveSessions == 1
\* restart_ffmpeg_stream requests (threads spawned by toggle_mute).
MaxRestarts == 2
\* Media threads: one per session start and one per restart.
MaxThreads == MaxSessions + MaxRestarts
\* Bytes kept of what was written to a connection (the order of the first ones).
MaxWire == 1
\* Control events the user of the viewer produces, and lines a foreign control
\* client writes, during one run.
MaxEvents == 2
\* Control connections made to the host one after another, and event lines
\* written on each.
MaxControl == 2
MaxLines == 1
\* Entries kept of what happened to the audio connection.
MaxLog == 4
\* Calls of ClientWindow.stop_connection, and chunks of the stream the Worker
\* reads, during one connection of the client.
MaxStops == 2
MaxReads == 1

\* Python's None for every handle field (sockets, process, thread).
None == 0
\* a listener field that holds its socket object
Bound == None + 1

VARIABLES
    encoder_mode,            \* "FFmpeg" | "Legacy"  (self._encoder_mode, by prefix)
    is_muted,                \* self._is_muted
    is_running,              \* self.is_running
    server_socket,           \* None | Bound (the video listener, "vsock")
    audio_socket,            \* None | Bound (the audio listener, "asock")
    control_socket_listener, \* None | Bound (the control listener, "csock")
    client_conn,             \* None | connection id
    audio_client_conn,       \* None | audio connection id
    control_client_conn,     \* None | control connection id
    media_process,           \* None | process id (the id of the thread that launched it)
    media_thread,            \* self._media_thread: None | thread id
    stop_stream,             \* self._stop_stream_event
    stop_heartbeat,          \* self._stop_heartbeat_event
    stop_control,            \* self._stop_control_event
    lock,                    \* stream_management_lock: None | restart id holding it
    conn,                    \* video connections: id -> [peer, closes, wire, failed]
    nconn,                   \* video connections accepted so far
    lclosed,                 \* listener sockets: name -> number of close() calls
    thr,                     \* media threads: id -> [kind, pc, sess]
    proc,                    \* encoder processes: id -> "none" | "alive" |
                             \* "exited" (by itself) | "dead" (terminated)
    rst,                     \* restart threads: id -> [pc, sess]
    nrst,                    \* restart threads spawned so far
    hb,                      \* heartbeat thread of the session: "none" | "run" | "done"
    srv,                     \* server thread: [pc, mode_byte, brk]
    gui,                     \* GUI thread: "idle" | "stopping" | "done"
    stp,                     \* stop_server invocations: caller -> pc
    stopped_emits,           \* server_stopped_signal emissions
    startup_failed_emits,    \* server_startup_failed_signal emissions
    host,                    \* what the host machine provides: [ffmpeg, pillow,
                             \* capture, pynput, ports]
    aud,                     \* stream_audio thread: [pc, parec]
    aconn,                   \* the audio connection: [peer, closes, pending]
    wrk,                     \* the viewer's Worker: [pc, pynput, mode, why,
                             \* control_socket_client, stop_control_send,
                             \* attempts, failures, dropped, last]
    cch,                     \* the control connection: [pending, from, net,
                             \* peer, closes, sent]
    hcc,                     \* _handle_control_client thread: [pc, buffer,
                             \* rcvd, dispatched]
    monitor_dims,            \* self.monitor_dims: [left, top, width, height]
    mouse,                   \* self.mouse_controller: [position, target, last]
    keyboard,                \* self.keyboard_controller: the keys held down
    config_file,             \* CONFIG_FILE on disk, and the errors logged for it
    audio_sent,              \* what happened to the audio connection, in
                             \* order: "chunk" written, "mute", "unmute"
    ctl,                     \* control connections by order of arrival: the
                             \* socket and its _handle_control_client thread
    screen_capture_rate,     \* self._screen_capture_rate
    jpeg_quality,            \* self._jpeg_quality
    client_worker,           \* the Worker of the client, statement by
                             \* statement
    command                  \* stream_ffmpeg's locals: thread id -> [read,
                             \* rate, is_muted, seen]

vars == <<encoder_mode, is_muted, is_running, server_socket, audio_socket,
          control_socket_listener, client_conn, audio_client_conn,
          control_client_conn, media_process, media_thread, stop_stream,
          stop_heartbeat, stop_control, lock, conn, nconn, lclosed, thr,
          proc, rst, nrst, hb, srv, gui, stp, stopped_emits,
          startup_failed_emits, host, aud, aconn, wrk, cch, hcc,
          monitor_dims, mouse, keyboard, config_file, ctl, audio_sent, jpeg_quality,
          client_worker,
          screen_capture_rate, command>>

settings == <<encoder_mode, is_muted>>
sockets == <<server_socket, audio_socket, control_socket_listener, client_conn,
             audio_client_conn, control_client_conn, conn, lclosed>>
events == <<stop_stream, stop_heartbeat, stop_control>>

Modes == {"FFmpeg", "Legacy"}
Conns == 1..MaxSessions
Threads == 1..MaxThreads
\* the media thread run_server creates for its c-th session (line 414 or 416)
SessionThread(c) == c
\* the media thread restart request r creates (line 632)
RestartThread(r) == MaxSessions + r
Restarts == 1..MaxRestarts
Callers == {"srv", "gui"}

\* a counter of close() calls, kept up to 2 (twice is already too often)
Bump(n) == IF n < 2 THEN n + 1 ELSE n

\* threading.Thread.is_alive(): started and not finished
IsAlive(t) == t # None /\ thr[t].pc \notin {"none", "done"}

\* Thread.start(): the first statement of the thread's target
StartPc(kind) == IF kind = "F" THEN "f_popen" ELSE "l_entry"

\* Popen.terminate() (and kill): a process that has exited stays as it is
Terminated(p) == [proc EXCEPT ![p] = IF @ = "alive" THEN "dead" ELSE @]

\* shutdown and close of the audio connection the field holds, if any
AudioClosed ==
    IF audio_client_conn # None THEN [aconn EXCEPT !.closes = Bump(@)]
    ELSE aconn

\* shutdown and close of the control connection the field holds, if any
ControlClosed ==
    IF control_client_conn # None THEN [cch EXCEPT !.closes = Bump(@)]
    ELSE cch

\* self.audio_socket.accept() can return a connection
AudioListening == audio_socket # None /\ lclosed["asock"] = 0

\* socket.sendall succeeds on a connection that neither side has closed
SendOK(c) == conn[c].closes = 0 /\ conn[c].peer = "open"

\* a sendall on connection c raised OSError in a pipeline loop (kept for
\* observation)
Failed(c) == [conn EXCEPT ![c].failed = TRUE]

\* what sendall leaves on the wire of connection c
Written(c, b) ==
    [conn EXCEPT ![c].wire = IF Len(@) < MaxWire THEN Append(@, b) ELSE @]

\* a host machine with everything installed and its ports free
FullHost == [ffmpeg |-> TRUE, pillow |-> TRUE, capture |-> TRUE,
             pynput |-> TRUE, ports |-> TRUE]

\* host machines: shutil.which('ffmpeg'), PILLOW_SUPPORT, MSS_SUPPORT or a
\* Wayland screenshot tool, PYNPUT_SUPPORT, and whether bind succeeds
Hosts == [ffmpeg : BOOLEAN, pillow : BOOLEAN, capture : BOOLEAN,
          pynput : BOOLEAN, ports : BOOLEAN]

\* Worker.__init__ (client lines 53-66) on a viewer machine with or without
\* pynput (the client's PYNPUT_SUPPORT)
NewWorker(pynput) ==
    [pc |-> "w_init", pynput |-> pynput, mode |-> "-", why |-> "-",
     control_socket_client |-> None, stop_control_send |-> FALSE,
     attempts |-> 0, failures |-> 0, dropped |-> 0, last |-> "-"]

\* the rectangle the pointer is scaled to when mss reports none (line 186)
Fallback == [left |-> 0, top |-> 0, width |-> 1920, height |-> 1080]

\* the locals of a stream_ffmpeg that has not reached line 653: read counts
\* the settings it has read, seen is the set of values StreamConfig has had
\* since it read the first
Unbuilt ==
    [read |-> 0, rate |-> 0, quality |-> 0, is_muted |-> FALSE, seen |-> {}]

\* the pointer before the host has moved it: wherever the user left it
Elsewhere == <<>>

\* RemoteDesktopServer.__init__ (lines 145-162): nothing runs, nothing is open
Constructed ==
    /\ encoder_mode \in Modes
    /\ is_muted \in BOOLEAN
    /\ is_running = FALSE
    /\ server_socket = None
    /\ audio_socket = None
    /\ control_socket_listener = None
    /\ client_conn = None
    /\ audio_client_conn = None
    /\ control_client_conn = None
    /\ media_process = None
    /\ media_thread = None
    /\ stop_stream = FALSE
    /\ stop_heartbeat = FALSE
    /\ stop_control = FALSE
    /\ lock = None
    /\ conn = [c \in Conns |-> [peer |-> "open", closes |-> 0, wire |-> <<>>,
                                failed |-> FALSE]]
    /\ nconn = 0
    /\ lclosed = [s \in {"vsock", "asock", "csock"} |-> 0]
    /\ thr = [t \in Threads |-> [kind |-> "-", pc |-> "none", sess |-> None]]
    /\ proc = [t \in Threads |-> "none"]
    /\ rst = [r \in Restarts |-> [pc |-> "none", sess |-> None]]
    /\ nrst = 0
    /\ hb = "none"
    /\ srv = [pc |-> "s_start", mode_byte |-> "-", brk |-> FALSE,
              audio |-> "-"]
    /\ gui = "idle"
    /\ stp = [i \in Callers |-> "idle"]
    /\ stopped_emits = 0
    /\ startup_failed_emits = 0
    /\ aud = [pc |-> "none", parec |-> "none"]
    /\ aconn = [peer |-> "open", closes |-> 0, pending |-> FALSE]
    /\ cch = [pending |-> "-", from |-> "-", net |-> <<>>, peer |-> "open",
              closes |-> 0, sent |-> <<>>]
    /\ hcc = [pc |-> "none", buffer |-> <<>>, rcvd |-> <<>>,
              dispatched |-> <<>>]
    /\ keyboard = {}
    /\ audio_sent = <<>>
    /\ ctl = [k \in 1..MaxControl |->
                [pc |-> "none", closes |-> 0, net |-> 0, sent |-> 0,
                 dispatched |-> 0, session |-> None]]
    /\ config_file = [content |-> "old", errors |-> 0]
    /\ screen_capture_rate = 30
    /\ jpeg_quality = 75
    /\ client_worker =
         [pc |-> "none", pynput |-> FALSE, mode |-> "", stop_event |-> FALSE,
          emits |-> 0, ffplay |-> "none", terminates |-> 0,
          socks |-> [s \in {"control_socket", "audio_socket",
                            "control_socket_client"} |-> "none"],
          closes |-> [s \in {"control_socket", "audio_socket",
                             "control_socket_client"} |-> 0],
          d |-> [t \in {"gui", "worker"} |-> "idle"],
          stops |-> 0, reads |-> 0]
    /\ command = [t \in Threads |-> Unbuilt]
    /\ mouse = [position |-> Elsewhere, target |-> Elsewhere,
                last |-> "-"]

\* the host on a machine that provides everything; its viewers are anonymous
Init ==
    /\ Constructed
    /\ host = FullHost
    /\ wrk = NewWorker(TRUE)
    /\ monitor_dims = Fallback

\* the host on any machine, and a PyViewer client on any machine
InitHost ==
    /\ Constructed
    /\ host \in Hosts
    /\ wrk \in {NewWorker(p) : p \in BOOLEAN}
    /\ monitor_dims = Fallback

(***************************************************************************)
(* Variants of single steps. Each differs from the code in one place; a    *)
(* property that is to say something about the code must fail for the      *)
(* variant.                                                                *)
(***************************************************************************)

\* heartbeat_thread.join() given a timeout: the server thread goes on while the
\* heartbeat of the session is still running
SrvJoinHeartbeatTimeout ==
    /\ srv.pc = "s_hbjoin"
    /\ srv' = [srv EXCEPT !.pc = "s_cl_events"]
    /\ UNCHANGED <<encoder_mode, is_muted, is_running, server_socket,
                   audio_socket, control_socket_listener, client_conn,
                   audio_client_conn, control_client_conn, media_process,
                   media_thread, stop_stream, stop_heartbeat, stop_control,
                   lock, conn, nconn, lclosed, thr, proc, rst, nrst, hb, gui,
                   stp, stopped_emits, startup_failed_emits, host, aud, aconn,
                   wrk, cch, hcc, monitor_dims, mouse, keyboard, config_file,
                   ctl, audio_sent, jpeg_quality, client_worker,
                   screen_capture_rate, command>>

\* a restart that also drops the video connection
RstKillDropConn(r) ==
    /\ rst[r].pc = "r_kill"
    /\ proc' = IF media_process # None
               THEN Terminated(media_process) ELSE proc
    /\ media_process' = None
    /\ media_thread' = None
    /\ client_conn' = None
    /\ rst' = [rst EXCEPT ![r].pc = "r_start"]
    /\ UNCHANGED <<encoder_mode, is_muted, is_running, server_socket,
                   audio_socket, control_socket_listener, audio_client_conn,
                   control_client_conn, stop_stream, stop_heartbeat,
                   stop_control, lock, conn, nconn, lclosed, thr, nrst, hb,
                   srv, gui, stp, stopped_emits, startup_failed_emits, host,
                   aud, aconn, wrk, cch, hcc, monitor_dims, mouse, keyboard,
                   config_file, ctl, audio_sent, jpeg_quality, client_worker,
                   screen_capture_rate, command>>

\* stream_management_lock entered without waiting for its holder
TryLockNoWait(r) == lock' = r


\* an audio accept that times out treated as the failure of the session
SrvAudioTimeoutFatal ==
    /\ srv.pc = "s_audio"
    /\ AudioListening
    /\ audio_client_conn' = None
    /\ srv' = [srv EXCEPT !.pc = "s_cl_events", !.brk = TRUE,
                          !.audio = "timeout"]
    /\ UNCHANGED <<encoder_mode, is_muted, is_running, server_socket,
                   audio_socket, control_socket_listener, client_conn,
                   control_client_conn, media_process, media_thread,
                   stop_stream, stop_heartbeat, stop_control, lock, conn,
                   nconn, lclosed, thr, proc, rst, nrst, hb, gui, stp,
                   stopped_emits, startup_failed_emits, host, aud, aconn, wrk,
                   cch, hcc, monitor_dims, mouse, keyboard, config_file, ctl,
                   audio_sent, jpeg_quality, client_worker,
                   screen_capture_rate, command>>

(***************************************************************************)
(* run_server: the server thread.                                          *)
(***************************************************************************)

\* The first statement of a pass of the loop (line 378: while self.is_running),
\* read together with the statement before it; a break leaves the loop.
LoopPc(brk) == IF is_running /\ ~brk THEN "s_accept" ELSE "s_final"

\* line 382: mode_byte = 'F' if self.encoder_mode.startswith("FFmpeg") else 'L'
ModeByte == IF encoder_mode = "FFmpeg" THEN "F" ELSE "L"

\* lines 413-416: stream_ffmpeg if self.encoder_mode.startswith("FFmpeg"),
\* else stream_screen
SrvTarget == IF encoder_mode = "FFmpeg" THEN "F" ELSE "L"

\* lines 314-345: the pre-flight checks that end run_server: Pillow missing
\* (whatever the mode), and in Legacy mode no capture provider (mss, or a
\* Wayland screenshot tool). A missing ffmpeg is only logged (lines 319-320).
PreflightFails ==
    \/ ~host.pillow
    \/ encoder_mode = "Legacy" /\ ~host.capture

\* lines 314-378. A failed pre-flight check emits server_startup_failed_signal
\* and returns before the try statement: is_running stays False and
\* stop_server is not called. Otherwise is_running is set and the listeners
\* are bound: video, audio in Legacy mode, control if PYNPUT_SUPPORT; a bind
\* that raises is reported at lines 479-481 and stop_server follows.
SrvStart ==
    /\ srv.pc = "s_start"
    /\ IF PreflightFails
       THEN /\ startup_failed_emits' = startup_failed_emits + 1
            /\ srv' = [srv EXCEPT !.pc = "s_returned"]
            /\ UNCHANGED <<is_running, server_socket, audio_socket,
                           control_socket_listener>>
       ELSE IF ~host.ports
       THEN /\ is_running' = TRUE
            /\ server_socket' = Bound
            /\ startup_failed_emits' = startup_failed_emits + 1
            /\ srv' = [srv EXCEPT !.pc = "s_final"]
            /\ UNCHANGED <<audio_socket, control_socket_listener>>
       ELSE /\ is_running' = TRUE
            /\ server_socket' = Bound
            /\ audio_socket' = IF encoder_mode = "Legacy" THEN Bound ELSE None
            /\ control_socket_listener' = IF host.pynput THEN Bound ELSE None
            /\ srv' = [srv EXCEPT !.pc = "s_accept"]
            /\ UNCHANGED startup_failed_emits
    /\ UNCHANGED <<encoder_mode, is_muted, client_conn, audio_client_conn,
                   control_client_conn, media_process, media_thread,
                   stop_stream, stop_heartbeat, stop_control, lock, conn,
                   nconn, lclosed, thr, proc, rst, nrst, hb, gui, stp,
                   stopped_emits, host, aud, aconn, wrk, cch, hcc,
                   monitor_dims, mouse, keyboard, config_file, ctl, audio_sent,
                   jpeg_quality, client_worker, screen_capture_rate, command>>

\* lines 381-382: accept returns a viewer's connection, client_conn is assigned
\* and the mode byte is computed from the first read of encoder_mode; at most
\* max viewers connect
SrvAcceptConn(max) ==
    /\ srv.pc = "s_accept"
    /\ server_socket # None /\ lclosed["vsock"] = 0
    /\ nconn < max
    /\ nconn' = nconn + 1
    /\ client_conn' = nconn + 1
    /\ srv' = [srv EXCEPT !.pc = "s_send",
                          !.mode_byte = ModeByte,
                          !.audio = "-"]
    /\ UNCHANGED <<encoder_mode, is_muted, is_running, server_socket,
                   audio_socket, control_socket_listener, audio_client_conn,
                   control_client_conn, media_process, media_thread,
                   stop_stream, stop_heartbeat, stop_control, lock, conn,
                   lclosed, thr, proc, rst, nrst, hb, gui, stp, stopped_emits,
                   startup_failed_emits, host, aud, aconn, wrk, cch, hcc,
                   monitor_dims, mouse, keyboard, config_file, ctl, audio_sent,
                   jpeg_quality, client_worker, screen_capture_rate, command>>

\* lines 381, 431-432: socket.timeout -> continue (through the finally)
SrvAcceptTimeout ==
    /\ srv.pc = "s_accept"
    /\ server_socket # None /\ lclosed["vsock"] = 0
    /\ srv' = [srv EXCEPT !.pc = "s_cl_events"]
    /\ UNCHANGED <<encoder_mode, is_muted, is_running, server_socket,
                   audio_socket, control_socket_listener, client_conn,
                   audio_client_conn, control_client_conn, media_process,
                   media_thread, stop_stream, stop_heartbeat, stop_control,
                   lock, conn, nconn, lclosed, thr, proc, rst, nrst, hb, gui,
                   stp, stopped_emits, startup_failed_emits, host, aud, aconn,
                   wrk, cch, hcc, monitor_dims, mouse, keyboard, config_file,
                   ctl, audio_sent, jpeg_quality, client_worker,
                   screen_capture_rate, command>>

\* lines 381, 433-436: the listener was closed or nulled by stop_server:
\* OSError or AttributeError -> except Exception -> break
SrvAcceptError ==
    /\ srv.pc = "s_accept"
    /\ server_socket = None \/ lclosed["vsock"] > 0
    /\ srv' = [srv EXCEPT !.pc = "s_cl_events", !.brk = TRUE]
    /\ UNCHANGED <<encoder_mode, is_muted, is_running, server_socket,
                   audio_socket, control_socket_listener, client_conn,
                   audio_client_conn, control_client_conn, media_process,
                   media_thread, stop_stream, stop_heartbeat, stop_control,
                   lock, conn, nconn, lclosed, thr, proc, rst, nrst, hb, gui,
                   stp, stopped_emits, startup_failed_emits, host, aud, aconn,
                   wrk, cch, hcc, monitor_dims, mouse, keyboard, config_file,
                   ctl, audio_sent, jpeg_quality, client_worker,
                   screen_capture_rate, command>>

\* line 383: self.client_conn.sendall(mode_byte); a failure (the field nulled by
\* stop_server, the socket closed, the viewer gone) -> except Exception -> break
SrvSendMode ==
    /\ srv.pc = "s_send"
    /\ IF client_conn # None /\ SendOK(client_conn)
       THEN /\ conn' = Written(client_conn, srv.mode_byte)
            /\ srv' = [srv EXCEPT !.pc = "s_hbclear"]
       ELSE /\ conn' = conn
            /\ srv' = [srv EXCEPT !.pc = "s_cl_events", !.brk = TRUE]
    /\ UNCHANGED <<encoder_mode, is_muted, is_running, server_socket,
                   audio_socket, control_socket_listener, client_conn,
                   audio_client_conn, control_client_conn, media_process,
                   media_thread, stop_stream, stop_heartbeat, stop_control,
                   lock, nconn, lclosed, thr, proc, rst, nrst, hb, gui, stp,
                   stopped_emits, startup_failed_emits, host, aud, aconn, wrk,
                   cch, hcc, monitor_dims, mouse, keyboard, config_file, ctl,
                   audio_sent, jpeg_quality, client_worker,
                   screen_capture_rate, command>>

\* lines 388-390: self._stop_heartbeat_event.clear(), then
\* if mode_byte == 'L' and self.audio_socket
SrvClearHeartbeat ==
    /\ srv.pc = "s_hbclear"
    /\ stop_heartbeat' = FALSE
    /\ srv' = [srv EXCEPT !.pc = IF srv.mode_byte = "L" /\ audio_socket # None
                                 THEN "s_audio" ELSE "s_ssclear"]
    /\ UNCHANGED <<encoder_mode, is_muted, is_running, server_socket,
                   audio_socket, control_socket_listener, client_conn,
                   audio_client_conn, control_client_conn, media_process,
                   media_thread, stop_stream, stop_control, lock, conn, nconn,
                   lclosed, thr, proc, rst, nrst, hb, gui, stp, stopped_emits,
                   startup_failed_emits, host, aud, aconn, wrk, cch, hcc,
                   monitor_dims, mouse, keyboard, config_file, ctl, audio_sent,
                   jpeg_quality, client_worker, screen_capture_rate, command>>

\* lines 392-399 (sys.platform is "linux"): the viewer's audio connection is
\* accepted and the stream_audio thread is started
SrvAudioAccept ==
    /\ srv.pc = "s_audio"
    /\ AudioListening
    /\ aconn.pending
    /\ aconn' = [aconn EXCEPT !.pending = FALSE]
    /\ audio_client_conn' = Bound
    /\ aud' = [aud EXCEPT !.pc = "a_entry"]
    /\ srv' = [srv EXCEPT !.pc = "s_ssclear", !.audio = "accepted"]
    /\ UNCHANGED <<encoder_mode, is_muted, is_running, server_socket,
                   audio_socket, control_socket_listener, client_conn,
                   control_client_conn, media_process, media_thread,
                   stop_stream, stop_heartbeat, stop_control, lock, conn,
                   nconn, lclosed, thr, proc, rst, nrst, hb, gui, stp,
                   stopped_emits, startup_failed_emits, host, wrk, cch, hcc,
                   monitor_dims, mouse, keyboard, config_file, ctl, audio_sent,
                   jpeg_quality, client_worker, screen_capture_rate, command>>

\* lines 401-403: socket.timeout: no audio connection within one second
SrvAudioTimeout ==
    /\ srv.pc = "s_audio"
    /\ AudioListening
    /\ audio_client_conn' = None
    /\ srv' = [srv EXCEPT !.pc = "s_ssclear", !.audio = "timeout"]
    /\ UNCHANGED <<encoder_mode, is_muted, is_running, server_socket,
                   audio_socket, control_socket_listener, client_conn,
                   control_client_conn, media_process, media_thread,
                   stop_stream, stop_heartbeat, stop_control, lock, conn,
                   nconn, lclosed, thr, proc, rst, nrst, hb, gui, stp,
                   stopped_emits, startup_failed_emits, host, aud, aconn, wrk,
                   cch, hcc, monitor_dims, mouse, keyboard, config_file, ctl,
                   audio_sent, jpeg_quality, client_worker,
                   screen_capture_rate, command>>

\* lines 404-406: accept raises (the listener was closed or nulled by
\* stop_server): except Exception
SrvAudioError ==
    /\ srv.pc = "s_audio"
    /\ ~AudioListening
    /\ audio_client_conn' = None
    /\ srv' = [srv EXCEPT !.pc = "s_ssclear", !.audio = "error"]
    /\ UNCHANGED <<encoder_mode, is_muted, is_running, server_socket,
                   audio_socket, control_socket_listener, client_conn,
                   control_client_conn, media_process, media_thread,
                   stop_stream, stop_heartbeat, stop_control, lock, conn,
                   nconn, lclosed, thr, proc, rst, nrst, hb, gui, stp,
                   stopped_emits, startup_failed_emits, host, aud, aconn, wrk,
                   cch, hcc, monitor_dims, mouse, keyboard, config_file, ctl,
                   audio_sent, jpeg_quality, client_worker,
                   screen_capture_rate, command>>

\* lines 410-411: self._stop_stream_event.clear(); self._media_thread = None
SrvClearStream ==
    /\ srv.pc = "s_ssclear"
    /\ stop_stream' = FALSE
    /\ media_thread' = None
    /\ srv' = [srv EXCEPT !.pc = "s_tnew"]
    /\ UNCHANGED <<encoder_mode, is_muted, is_running, server_socket,
                   audio_socket, control_socket_listener, client_conn,
                   audio_client_conn, control_client_conn, media_process,
                   stop_heartbeat, stop_control, lock, conn, nconn, lclosed,
                   thr, proc, rst, nrst, hb, gui, stp, stopped_emits,
                   startup_failed_emits, host, aud, aconn, wrk, cch, hcc,
                   monitor_dims, mouse, keyboard, config_file, ctl, audio_sent,
                   jpeg_quality, client_worker, screen_capture_rate, command>>

\* lines 413-423: the second read of encoder_mode picks the thread's target; the
\* thread is started, then the heartbeat thread of the session
SrvStartThread ==
    /\ srv.pc = "s_tnew"
    /\ thr' = [thr EXCEPT ![SessionThread(nconn)] =
                 [kind |-> SrvTarget, pc |-> StartPc(SrvTarget), sess |-> nconn]]
    /\ media_thread' = SessionThread(nconn)
    /\ hb' = "run"
    /\ srv' = [srv EXCEPT !.pc = "s_hbjoin"]
    /\ UNCHANGED <<encoder_mode, is_muted, is_running, server_socket,
                   audio_socket, control_socket_listener, client_conn,
                   audio_client_conn, control_client_conn, media_process,
                   stop_stream, stop_heartbeat, stop_control, lock, conn,
                   nconn, lclosed, proc, rst, nrst, gui, stp, stopped_emits,
                   startup_failed_emits, host, aud, aconn, wrk, cch, hcc,
                   monitor_dims, mouse, keyboard, config_file, ctl, audio_sent,
                   jpeg_quality, client_worker, screen_capture_rate, command>>

\* lines 426-429: heartbeat_thread.join() has no timeout
SrvJoinHeartbeat ==
    /\ srv.pc = "s_hbjoin"
    /\ hb = "done"
    /\ srv' = [srv EXCEPT !.pc = "s_cl_events"]
    /\ UNCHANGED <<encoder_mode, is_muted, is_running, server_socket,
                   audio_socket, control_socket_listener, client_conn,
                   audio_client_conn, control_client_conn, media_process,
                   media_thread, stop_stream, stop_heartbeat, stop_control,
                   lock, conn, nconn, lclosed, thr, proc, rst, nrst, hb, gui,
                   stp, stopped_emits, startup_failed_emits, host, aud, aconn,
                   wrk, cch, hcc, monitor_dims, mouse, keyboard, config_file,
                   ctl, audio_sent, jpeg_quality, client_worker,
                   screen_capture_rate, command>>

\* ---- the finally of every pass of the loop (lines 437-477) ----

\* lines 439-448: the three events are set; join(timeout=2) returns whether or
\* not the media thread has ended, and the field is nulled only when the thread
\* was alive at the check.
SrvClEvents ==
    /\ srv.pc = "s_cl_events"
    /\ stop_stream' = TRUE
    /\ stop_heartbeat' = TRUE
    /\ stop_control' = TRUE
    /\ media_thread' = IF IsAlive(media_thread) THEN None ELSE media_thread
    /\ srv' = [srv EXCEPT !.pc = "s_cl_term"]
    /\ UNCHANGED <<encoder_mode, is_muted, is_running, server_socket,
                   audio_socket, control_socket_listener, client_conn,
                   audio_client_conn, control_client_conn, media_process, lock,
                   conn, nconn, lclosed, thr, proc, rst, nrst, hb, gui, stp,
                   stopped_emits, startup_failed_emits, host, aud, aconn, wrk,
                   cch, hcc, monitor_dims, mouse, keyboard, config_file, ctl,
                   audio_sent, jpeg_quality, client_worker,
                   screen_capture_rate, command>>

\* lines 450-455: if self.media_process: terminate, wait, kill
SrvClTerm ==
    /\ srv.pc = "s_cl_term"
    /\ IF media_process = None
       THEN /\ proc' = proc
            /\ srv' = [srv EXCEPT !.pc = "s_cl_close"]
       ELSE /\ proc' = Terminated(media_process)
            /\ srv' = [srv EXCEPT !.pc = "s_cl_pnull"]
    /\ UNCHANGED <<encoder_mode, is_muted, is_running, server_socket,
                   audio_socket, control_socket_listener, client_conn,
                   audio_client_conn, control_client_conn, media_process,
                   media_thread, stop_stream, stop_heartbeat, stop_control,
                   lock, conn, nconn, lclosed, thr, rst, nrst, hb, gui, stp,
                   stopped_emits, startup_failed_emits, host, aud, aconn, wrk,
                   cch, hcc, monitor_dims, mouse, keyboard, config_file, ctl,
                   audio_sent, jpeg_quality, client_worker,
                   screen_capture_rate, command>>

\* line 456: self.media_process = None
SrvClProcNull ==
    /\ srv.pc = "s_cl_pnull"
    /\ media_process' = None
    /\ srv' = [srv EXCEPT !.pc = "s_cl_close"]
    /\ UNCHANGED <<encoder_mode, is_muted, is_running, server_socket,
                   audio_socket, control_socket_listener, client_conn,
                   audio_client_conn, control_client_conn, media_thread,
                   stop_stream, stop_heartbeat, stop_control, lock, conn,
                   nconn, lclosed, thr, proc, rst, nrst, hb, gui, stp,
                   stopped_emits, startup_failed_emits, host, aud, aconn, wrk,
                   cch, hcc, monitor_dims, mouse, keyboard, config_file, ctl,
                   audio_sent, jpeg_quality, client_worker,
                   screen_capture_rate, command>>

\* lines 458-462: if self.client_conn: shutdown and close, OSError tolerated
SrvClConnClose ==
    /\ srv.pc = "s_cl_close"
    /\ conn' = IF client_conn # None
               THEN [conn EXCEPT ![client_conn].closes = Bump(@)] ELSE conn
    /\ srv' = [srv EXCEPT !.pc = "s_cl_cnull"]
    /\ UNCHANGED <<encoder_mode, is_muted, is_running, server_socket,
                   audio_socket, control_socket_listener, client_conn,
                   audio_client_conn, control_client_conn, media_process,
                   media_thread, stop_stream, stop_heartbeat, stop_control,
                   lock, nconn, lclosed, thr, proc, rst, nrst, hb, gui, stp,
                   stopped_emits, startup_failed_emits, host, aud, aconn, wrk,
                   cch, hcc, monitor_dims, mouse, keyboard, config_file, ctl,
                   audio_sent, jpeg_quality, client_worker,
                   screen_capture_rate, command>>

\* lines 463-477, 378: self.client_conn = None, the audio and control
\* connections closed and nulled; then the loop goes on, or ends
cleanup_connections ==
    /\ srv.pc = "s_cl_cnull"
    /\ client_conn' = None
    /\ aconn' = AudioClosed
    /\ audio_client_conn' = None
    /\ cch' = ControlClosed
    /\ control_client_conn' = None
    /\ srv' = [srv EXCEPT !.pc = LoopPc(srv.brk), !.brk = FALSE]

\* the same for a host with one control connection (cch)
SrvClConnNull ==
    /\ cleanup_connections
    /\ UNCHANGED <<encoder_mode, is_muted, is_running, server_socket,
                   audio_socket, control_socket_listener, media_process,
                   media_thread, stop_stream, stop_heartbeat, stop_control,
                   lock, conn, nconn, lclosed, thr, proc, rst, nrst, hb, gui,
                   stp, stopped_emits, startup_failed_emits, host, aud, wrk,
                   hcc, monitor_dims, mouse, keyboard, config_file, ctl,
                   audio_sent, jpeg_quality, client_worker,
                   screen_capture_rate, command>>

\* line 483: finally: self.stop_server()
SrvFinally ==
    /\ srv.pc = "s_final"
    /\ stp["srv"] = "idle"
    /\ stp' = [stp EXCEPT !["srv"] = "ss_begin"]
    /\ srv' = [srv EXCEPT !.pc = "s_stopping"]
    /\ UNCHANGED <<encoder_mode, is_muted, is_running, server_socket,
                   audio_socket, control_socket_listener, client_conn,
                   audio_client_conn, control_client_conn, media_process,
                   media_thread, stop_stream, stop_heartbeat, stop_control,
                   lock, conn, nconn, lclosed, thr, proc, rst, nrst, hb, gui,
                   stopped_emits, startup_failed_emits, host, aud, aconn, wrk,
                   cch, hcc, monitor_dims, mouse, keyboard, config_file, ctl,
                   audio_sent, jpeg_quality, client_worker,
                   screen_capture_rate, command>>

(***************************************************************************)
(* stop_server (lines 843-882), called by the server thread (line 483) and *)
(* by the GUI thread (ServerWindow.stop_server, line 1074). It takes no    *)
(* lock.                                                                   *)
(***************************************************************************)

\* lines 845-850: the guard, then is_running and the three events. One step:
\* a second caller still passes the guard until server_socket is nulled.
StopBegin(i) ==
    /\ stp[i] = "ss_begin"
    /\ IF ~is_running /\ server_socket = None
       THEN /\ stp' = [stp EXCEPT ![i] = "returned"]
            /\ UNCHANGED <<is_running, events>>
       ELSE /\ stp' = [stp EXCEPT ![i] = "ss_proc"]
            /\ is_running' = FALSE
            /\ stop_stream' = TRUE
            /\ stop_heartbeat' = TRUE
            /\ stop_control' = TRUE
    /\ UNCHANGED <<encoder_mode, is_muted, server_socket, audio_socket,
                   control_socket_listener, client_conn, audio_client_conn,
                   control_client_conn, media_process, media_thread, lock,
                   conn, nconn, lclosed, thr, proc, rst, nrst, hb, srv, gui,
                   stopped_emits, startup_failed_emits, host, aud, aconn, wrk,
                   cch, hcc, monitor_dims, mouse, keyboard, config_file, ctl,
                   audio_sent, jpeg_quality, client_worker,
                   screen_capture_rate, command>>

\* lines 852-854: sleep, then if self.media_process
StopProcCheck(i) ==
    /\ stp[i] = "ss_proc"
    /\ stp' = [stp EXCEPT ![i] = IF media_process # None THEN "ss_term"
                                 ELSE "ss_cconn"]
    /\ UNCHANGED <<encoder_mode, is_muted, is_running, server_socket,
                   audio_socket, control_socket_listener, client_conn,
                   audio_client_conn, control_client_conn, media_process,
                   media_thread, stop_stream, stop_heartbeat, stop_control,
                   lock, conn, nconn, lclosed, thr, proc, rst, nrst, hb, srv,
                   gui, stopped_emits, startup_failed_emits, host, aud, aconn,
                   wrk, cch, hcc, monitor_dims, mouse, keyboard, config_file,
                   ctl, audio_sent, jpeg_quality, client_worker,
                   screen_capture_rate, command>>

\* lines 855-857: terminate, wait, kill; the field is read again and None
\* raises AttributeError out of stop_server.
StopTerm(i) ==
    /\ stp[i] = "ss_term"
    /\ IF media_process = None
       THEN /\ proc' = proc
            /\ stp' = [stp EXCEPT ![i] = "raised"]
       ELSE /\ proc' = Terminated(media_process)
            /\ stp' = [stp EXCEPT ![i] = "ss_pnull"]
    /\ UNCHANGED <<encoder_mode, is_muted, is_running, server_socket,
                   audio_socket, control_socket_listener, client_conn,
                   audio_client_conn, control_client_conn, media_process,
                   media_thread, stop_stream, stop_heartbeat, stop_control,
                   lock, conn, nconn, lclosed, thr, rst, nrst, hb, srv, gui,
                   stopped_emits, startup_failed_emits, host, aud, aconn, wrk,
                   cch, hcc, monitor_dims, mouse, keyboard, config_file, ctl,
                   audio_sent, jpeg_quality, client_worker,
                   screen_capture_rate, command>>

\* line 858: self.media_process = None
StopProcNull(i) ==
    /\ stp[i] = "ss_pnull"
    /\ media_process' = None
    /\ stp' = [stp EXCEPT ![i] = "ss_cconn"]
    /\ UNCHANGED <<encoder_mode, is_muted, is_running, server_socket,
                   audio_socket, control_socket_listener, client_conn,
                   audio_client_conn, control_client_conn, media_thread,
                   stop_stream, stop_heartbeat, stop_control, lock, conn,
                   nconn, lclosed, thr, proc, rst, nrst, hb, srv, gui,
                   stopped_emits, startup_failed_emits, host, aud, aconn, wrk,
                   cch, hcc, monitor_dims, mouse, keyboard, config_file, ctl,
                   audio_sent, jpeg_quality, client_worker,
                   screen_capture_rate, command>>

\* line 867: close_socket(self.client_conn): the argument is read once
StopCloseConn(i) ==
    /\ stp[i] = "ss_cconn"
    /\ conn' = IF client_conn # None
               THEN [conn EXCEPT ![client_conn].closes = Bump(@)] ELSE conn
    /\ stp' = [stp EXCEPT ![i] = "ss_nconn"]
    /\ UNCHANGED <<encoder_mode, is_muted, is_running, server_socket,
                   audio_socket, control_socket_listener, client_conn,
                   audio_client_conn, control_client_conn, media_process,
                   media_thread, stop_stream, stop_heartbeat, stop_control,
                   lock, nconn, lclosed, thr, proc, rst, nrst, hb, srv, gui,
                   stopped_emits, startup_failed_emits, host, aud, aconn, wrk,
                   cch, hcc, monitor_dims, mouse, keyboard, config_file, ctl,
                   audio_sent, jpeg_quality, client_worker,
                   screen_capture_rate, command>>

\* lines 868-872: self.client_conn = None, then the audio and control
\* connections closed and nulled
StopNullConn(i) ==
    /\ stp[i] = "ss_nconn"
    /\ client_conn' = None
    /\ aconn' = AudioClosed
    /\ audio_client_conn' = None
    /\ cch' = ControlClosed
    /\ control_client_conn' = None
    /\ stp' = [stp EXCEPT ![i] = "ss_lsock"]
    /\ UNCHANGED <<encoder_mode, is_muted, is_running, server_socket,
                   audio_socket, control_socket_listener, media_process,
                   media_thread, stop_stream, stop_heartbeat, stop_control,
                   lock, conn, nconn, lclosed, thr, proc, rst, nrst, hb, srv,
                   gui, stopped_emits, startup_failed_emits, host, aud, wrk,
                   hcc, monitor_dims, mouse, keyboard, config_file, ctl,
                   audio_sent, jpeg_quality, client_worker,
                   screen_capture_rate, command>>

\* lines 873, 875, 877: close_socket on each listener the field still holds
StopCloseListeners(i) ==
    /\ stp[i] = "ss_lsock"
    /\ lclosed' = [s \in DOMAIN lclosed |->
                     IF \/ s = "vsock" /\ server_socket # None
                        \/ s = "asock" /\ audio_socket # None
                        \/ s = "csock" /\ control_socket_listener # None
                     THEN Bump(lclosed[s]) ELSE lclosed[s]]
    /\ stp' = [stp EXCEPT ![i] = "ss_lnull"]
    /\ UNCHANGED <<encoder_mode, is_muted, is_running, server_socket,
                   audio_socket, control_socket_listener, client_conn,
                   audio_client_conn, control_client_conn, media_process,
                   media_thread, stop_stream, stop_heartbeat, stop_control,
                   lock, conn, nconn, thr, proc, rst, nrst, hb, srv, gui,
                   stopped_emits, startup_failed_emits, host, aud, aconn, wrk,
                   cch, hcc, monitor_dims, mouse, keyboard, config_file, ctl,
                   audio_sent, jpeg_quality, client_worker,
                   screen_capture_rate, command>>

\* lines 874-882: the listener fields nulled, _save_settings, then
\* server_stopped_signal.emit()
stop_server_end(i) ==
    /\ stp[i] = "ss_lnull"
    /\ server_socket' = None
    /\ audio_socket' = None
    /\ control_socket_listener' = None
    /\ stopped_emits' = Bump(stopped_emits)
    /\ stp' = [stp EXCEPT ![i] = "returned"]

\* the same where the configuration file is not looked at
StopNullListeners(i) ==
    /\ stop_server_end(i)
    /\ UNCHANGED <<encoder_mode, is_muted, is_running, client_conn,
                   audio_client_conn, control_client_conn, media_process,
                   media_thread, stop_stream, stop_heartbeat, stop_control,
                   lock, conn, nconn, lclosed, thr, proc, rst, nrst, hb, srv,
                   gui, startup_failed_emits, host, aud, aconn, wrk, cch, hcc,
                   monitor_dims, mouse, keyboard, config_file, ctl, audio_sent,
                   jpeg_quality, client_worker, screen_capture_rate, command>>

StopServer(i) ==
    \/ StopBegin(i) \/ StopProcCheck(i) \/ StopTerm(i) \/ StopProcNull(i)
    \/ StopCloseConn(i) \/ StopNullConn(i)
    \/ StopCloseListeners(i) \/ StopNullListeners(i)

(***************************************************************************)
(* ServerWindow: the handlers of the GUI thread, one at a time.            *)
(***************************************************************************)

\* lines 1089-1112: update_encoder_mode sets the mode and restarts nothing
\* (line 1110 is "pass"); update_rate (line 1112) rewrites the rate it read.
UpdateEncoderMode(m) ==
    /\ gui = "idle"
    /\ m # encoder_mode
    /\ encoder_mode' = m
    /\ UNCHANGED <<is_muted, is_running, server_socket, audio_socket,
                   control_socket_listener, client_conn, audio_client_conn,
                   control_client_conn, media_process, media_thread,
                   stop_stream, stop_heartbeat, stop_control, lock, conn,
                   nconn, lclosed, thr, proc, rst, nrst, hb, srv, gui, stp,
                   stopped_emits, startup_failed_emits, host, aud, aconn, wrk,
                   cch, hcc, monitor_dims, mouse, keyboard, config_file, ctl,
                   audio_sent, jpeg_quality, client_worker,
                   screen_capture_rate, command>>

\* spawn a thread running restart_ffmpeg_stream (line 1141)
SpawnRestart == 
    /\ nrst' = nrst + 1
    /\ rst' = [rst EXCEPT ![nrst + 1] = [pc |-> "r_lock", sess |-> 0]]

\* lines 1132-1141: toggle_mute
toggle_mute ==
    /\ gui = "idle"
    /\ is_muted' = ~is_muted
    /\ IF encoder_mode = "FFmpeg" /\ is_running /\ client_conn # None
       THEN nrst < MaxRestarts /\ SpawnRestart
       ELSE UNCHANGED <<rst, nrst>>

ToggleMute ==
    /\ toggle_mute
    /\ UNCHANGED <<encoder_mode, is_running, server_socket, audio_socket,
                   control_socket_listener, client_conn, audio_client_conn,
                   control_client_conn, media_process, media_thread,
                   stop_stream, stop_heartbeat, stop_control, lock, conn,
                   nconn, lclosed, thr, proc, hb, srv, gui, stp, stopped_emits,
                   startup_failed_emits, host, aud, aconn, wrk, cch, hcc,
                   monitor_dims, mouse, keyboard, config_file, ctl, audio_sent,
                   jpeg_quality, client_worker, screen_capture_rate, command>>

\* lines 1071-1074: ServerWindow.stop_server (closeEvent): the window closes,
\* no handler runs afterwards
GuiStop ==
    /\ gui = "idle"
    /\ IF is_running
       THEN /\ gui' = "stopping"
            /\ stp' = [stp EXCEPT !["gui"] = "ss_begin"]
       ELSE /\ gui' = "done"
            /\ stp' = stp
    /\ UNCHANGED <<encoder_mode, is_muted, is_running, server_socket,
                   audio_socket, control_socket_listener, client_conn,
                   audio_client_conn, control_client_conn, media_process,
                   media_thread, stop_stream, stop_heartbeat, stop_control,
                   lock, conn, nconn, lclosed, thr, proc, rst, nrst, hb, srv,
                   stopped_emits, startup_failed_emits, host, aud, aconn, wrk,
                   cch, hcc, monitor_dims, mouse, keyboard, config_file, ctl,
                   audio_sent, jpeg_quality, client_worker,
                   screen_capture_rate, command>>

(***************************************************************************)
(* restart_ffmpeg_stream (lines 609-634), one thread per request, the      *)
(* whole body under stream_management_lock.                                *)
(***************************************************************************)

\* stream_management_lock.acquire() by restart thread r
TryLock(r) == lock = None /\ lock' = r
\* the end of the with block of restart thread r
Unlocked(r) == None

\* a variant of line 612 that does not test client_conn
RestartRefusedIfStopped == ~is_running \/ encoder_mode # "FFmpeg"

\* line 612: not self.is_running or not FFmpeg mode or not self.client_conn
RestartRefused ==
    ~is_running \/ encoder_mode # "FFmpeg" \/ client_conn = None

\* lines 611-619: the lock is taken and the precondition tested: when it fails
\* the function returns and the lock is released at once; otherwise the stop
\* event is set, and join(timeout=2) returns whether or not the old thread has
\* ended. The session the guard saw is kept for observation.
RstEnter(r) ==
    /\ rst[r].pc = "r_lock"
    /\ IF RestartRefused
       THEN /\ lock = None
            /\ rst' = [rst EXCEPT ![r].pc = "done"]
            /\ UNCHANGED <<stop_stream, lock>>
       ELSE /\ TryLock(r)
            /\ rst' = [rst EXCEPT ![r].pc = "r_kill", ![r].sess = client_conn]
            /\ stop_stream' = TRUE
    /\ UNCHANGED <<encoder_mode, is_muted, is_running, server_socket,
                   audio_socket, control_socket_listener, client_conn,
                   audio_client_conn, control_client_conn, media_process,
                   media_thread, stop_heartbeat, stop_control, conn, nconn,
                   lclosed, thr, proc, nrst, hb, srv, gui, stp, stopped_emits,
                   startup_failed_emits, host, aud, aconn, wrk, cch, hcc,
                   monitor_dims, mouse, keyboard, config_file, ctl, audio_sent,
                   jpeg_quality, client_worker, screen_capture_rate, command>>

\* lines 621-629: if self.media_process: terminate, wait, kill, and the field
\* nulled; self._media_thread = None
RstKill(r) ==
    /\ rst[r].pc = "r_kill"
    /\ proc' = IF media_process # None
               THEN Terminated(media_process) ELSE proc
    /\ media_process' = None
    /\ media_thread' = None
    /\ rst' = [rst EXCEPT ![r].pc = "r_start"]
    /\ UNCHANGED <<encoder_mode, is_muted, is_running, server_socket,
                   audio_socket, control_socket_listener, client_conn,
                   audio_client_conn, control_client_conn, stop_stream,
                   stop_heartbeat, stop_control, lock, conn, nconn, lclosed,
                   thr, nrst, hb, srv, gui, stp, stopped_emits,
                   startup_failed_emits, host, aud, aconn, wrk, cch, hcc,
                   monitor_dims, mouse, keyboard, config_file, ctl, audio_sent,
                   jpeg_quality, client_worker, screen_capture_rate, command>>

\* lines 630-634: the stop event is cleared, a stream_ffmpeg thread is created,
\* assigned and started; the with block releases the lock
RstStart(r) ==
    /\ rst[r].pc = "r_start"
    /\ stop_stream' = FALSE
    /\ thr' = [thr EXCEPT ![RestartThread(r)] =
                 [kind |-> "F", pc |-> StartPc("F"), sess |-> rst[r].sess]]
    /\ media_thread' = RestartThread(r)
    /\ lock' = Unlocked(r)
    /\ rst' = [rst EXCEPT ![r].pc = "done"]
    /\ UNCHANGED <<encoder_mode, is_muted, is_running, server_socket,
                   audio_socket, control_socket_listener, client_conn,
                   audio_client_conn, control_client_conn, media_process,
                   stop_heartbeat, stop_control, conn, nconn, lclosed, proc,
                   nrst, hb, srv, gui, stp, stopped_emits,
                   startup_failed_emits, host, aud, aconn, wrk, cch, hcc,
                   monitor_dims, mouse, keyboard, config_file, ctl, audio_sent,
                   jpeg_quality, client_worker, screen_capture_rate, command>>

Restart(r) == RstEnter(r) \/ RstKill(r) \/ RstStart(r)

(***************************************************************************)
(* Worker (src/pyviewer_client.py): the thread of a PyViewer client that   *)
(* connects to the host, lines 67-109, and then reads the video stream;    *)
(* and _send_control_event, called for every input event of the user.      *)
(* Its video connection is connection 1 of the host.                       *)
(***************************************************************************)

\* the connection the Worker opens (the first the host accepts)
WorkerConn == 1

\* lines 237-251: disconnect() sets stop_event and _stop_control_send_event and
\* closes the sockets the Worker holds; why records the caller
Disconnected(why) ==
    [wrk EXCEPT !.pc = "w_done", !.why = why, !.stop_control_send = TRUE]

\* the Worker's end of its video connection is closed
VideoDropped == [conn EXCEPT ![WorkerConn].peer = "closed"]

\* lines 246-251: the Worker's ends of its audio and control connections are
\* closed
WorkerSocketsClosed ==
    /\ aconn' = [aconn EXCEPT !.peer = "closed"]
    /\ cch' = IF wrk.control_socket_client # None /\ cch.peer = "open"
              THEN [cch EXCEPT !.peer = "closed"] ELSE cch

\* lines 88-92: connect to the video port; a refused connection raises and
\* _connect_sockets returns False after disconnect()
WConnect ==
    /\ wrk.pc = "w_init"
    /\ IF server_socket # None /\ lclosed["vsock"] = 0 /\ host.ports
       THEN wrk' = [wrk EXCEPT !.pc = "w_mode"]
       ELSE wrk' = Disconnected("refused")
    /\ UNCHANGED <<encoder_mode, is_muted, is_running, server_socket,
                   audio_socket, control_socket_listener, client_conn,
                   audio_client_conn, control_client_conn, media_process,
                   media_thread, stop_stream, stop_heartbeat, stop_control,
                   lock, conn, nconn, lclosed, thr, proc, rst, nrst, hb, srv,
                   gui, stp, stopped_emits, startup_failed_emits, host, aud,
                   aconn, cch, hcc, monitor_dims, mouse, keyboard, config_file,
                   ctl, audio_sent, jpeg_quality, client_worker,
                   screen_capture_rate, command>>

\* the host accepts the Worker's video connection
WorkerAccepted == nconn >= WorkerConn

\* lines 93-96: recv(1) returns the first byte the host wrote, or nothing once
\* the host has closed the connection (ConnectionAbortedError)
WRecvMode ==
    /\ wrk.pc = "w_mode"
    /\ WorkerAccepted
    /\ IF conn[WorkerConn].wire # <<>>
       THEN /\ wrk' = [wrk EXCEPT
                         !.mode = Head(conn[WorkerConn].wire),
                         !.pc = IF Head(conn[WorkerConn].wire) = "L"
                                THEN "w_audio" ELSE "w_control"]
            /\ conn' = conn
       ELSE /\ conn[WorkerConn].closes > 0
            /\ wrk' = Disconnected("no mode byte")
            /\ conn' = VideoDropped
    /\ UNCHANGED <<encoder_mode, is_muted, is_running, server_socket,
                   audio_socket, control_socket_listener, client_conn,
                   audio_client_conn, control_client_conn, media_process,
                   media_thread, stop_stream, stop_heartbeat, stop_control,
                   lock, nconn, lclosed, thr, proc, rst, nrst, hb, srv, gui,
                   stp, stopped_emits, startup_failed_emits, host, aud, aconn,
                   cch, hcc, monitor_dims, mouse, keyboard, config_file, ctl,
                   audio_sent, jpeg_quality, client_worker,
                   screen_capture_rate, command>>

\* lines 98-103: in Legacy mode the audio connection is opened; refused if the
\* host has no audio listener (then disconnect(), _connect_sockets is False)
WConnectAudio ==
    /\ wrk.pc = "w_audio"
    /\ IF AudioListening
       THEN /\ aconn' = [aconn EXCEPT !.pending = TRUE]
            /\ wrk' = [wrk EXCEPT !.pc = "w_control"]
            /\ conn' = conn
       ELSE /\ aconn' = aconn
            /\ wrk' = Disconnected("audio refused")
            /\ conn' = VideoDropped
    /\ UNCHANGED <<encoder_mode, is_muted, is_running, server_socket,
                   audio_socket, control_socket_listener, client_conn,
                   audio_client_conn, control_client_conn, media_process,
                   media_thread, stop_stream, stop_heartbeat, stop_control,
                   lock, nconn, lclosed, thr, proc, rst, nrst, hb, srv, gui,
                   stp, stopped_emits, startup_failed_emits, host, aud, cch,
                   hcc, monitor_dims, mouse, keyboard, config_file, ctl,
                   audio_sent, jpeg_quality, client_worker,
                   screen_capture_rate, command>>

\* the control port of the host accepts connections
ControlListening == control_socket_listener # None /\ lclosed["csock"] = 0

\* lines 71-80, 111-121: with pynput on the viewer the control connection is
\* opened and _stop_control_send_event cleared; if the connect fails (nothing
\* listens on the control port) the Worker disconnects the video as well and
\* returns. Without pynput it goes on to the stream handler.
WConnectControl ==
    /\ wrk.pc = "w_control"
    /\ IF ~wrk.pynput
       THEN /\ wrk' = [wrk EXCEPT !.pc = "w_stream"]
            /\ UNCHANGED <<conn, aconn, cch>>
       ELSE IF ControlListening
       THEN /\ wrk' = [wrk EXCEPT !.pc = "w_stream",
                                  !.control_socket_client = Bound,
                                  !.stop_control_send = FALSE]
            /\ cch' = [cch EXCEPT !.pending = "worker"]
            /\ UNCHANGED <<conn, aconn>>
       ELSE /\ wrk' = Disconnected("control refused")
            /\ conn' = VideoDropped
            /\ WorkerSocketsClosed
    /\ UNCHANGED <<encoder_mode, is_muted, is_running, server_socket,
                   audio_socket, control_socket_listener, client_conn,
                   audio_client_conn, control_client_conn, media_process,
                   media_thread, stop_stream, stop_heartbeat, stop_control,
                   lock, nconn, lclosed, thr, proc, rst, nrst, hb, srv, gui,
                   stp, stopped_emits, startup_failed_emits, host, aud, hcc,
                   monitor_dims, mouse, keyboard, config_file, ctl, audio_sent,
                   jpeg_quality, client_worker, screen_capture_rate, command>>

\* lines 161-165, 177-178, 188-192, 197-198: the stream handler reads until
\* the host closes the connection, then disconnect()
WStreamEnd ==
    /\ wrk.pc = "w_stream"
    /\ conn[WorkerConn].closes > 0
    /\ wrk' = Disconnected("stream ended")
    /\ conn' = VideoDropped
    /\ WorkerSocketsClosed
    /\ UNCHANGED <<encoder_mode, is_muted, is_running, server_socket,
                   audio_socket, control_socket_listener, client_conn,
                   audio_client_conn, control_client_conn, media_process,
                   media_thread, stop_stream, stop_heartbeat, stop_control,
                   lock, nconn, lclosed, thr, proc, rst, nrst, hb, srv, gui,
                   stp, stopped_emits, startup_failed_emits, host, aud, hcc,
                   monitor_dims, mouse, keyboard, config_file, ctl, audio_sent,
                   jpeg_quality, client_worker, screen_capture_rate, command>>

\* the user of the viewer disconnects (ClientWindow.stop_connection calls
\* disconnect())
WUserDisconnect ==
    /\ wrk.pc \in {"w_mode", "w_audio", "w_control", "w_stream"}
    /\ wrk' = Disconnected("user")
    /\ conn' = VideoDropped
    /\ WorkerSocketsClosed
    /\ UNCHANGED <<encoder_mode, is_muted, is_running, server_socket,
                   audio_socket, control_socket_listener, client_conn,
                   audio_client_conn, control_client_conn, media_process,
                   media_thread, stop_stream, stop_heartbeat, stop_control,
                   lock, nconn, lclosed, thr, proc, rst, nrst, hb, srv, gui,
                   stp, stopped_emits, startup_failed_emits, host, aud, hcc,
                   monitor_dims, mouse, keyboard, config_file, ctl, audio_sent,
                   jpeg_quality, client_worker, screen_capture_rate, command>>

Worker ==
    \/ WConnect \/ WRecvMode \/ WConnectAudio \/ WConnectControl \/ WStreamEnd

(***************************************************************************)
(* The control channel: bytes, lines and events.                           *)
(***************************************************************************)

\* kinds of control event (the 'type' of the object: a mouse and a key event)
Events == {"m", "k"}

\* line 126: json.dumps({"type": event_type, "data": data}): an object, in
\* ASCII characters only (ensure_ascii), with no raw newline
JsonDumps(e) == <<"{", e, "}">>

\* lines that a control client other than PyViewer can write: a well-formed
\* event, text that is not JSON, JSON that is not an object with 'type' and
\* 'data', and a byte sequence that is not UTF-8
ForeignLines == {JsonDumps("m"), <<"?">>, <<"[", "]">>, <<"xff">>}

\* line 127: message.encode('utf-8') of the line and its newline
Message(line) == line \o <<"\n">>

\* sendall on the control connection succeeds: neither end has closed it
ControlSendOK == cch.closes = 0 /\ cch.peer = "open"

\* number of calls of _send_control_event so far
Calls == wrk.attempts + wrk.dropped

\* variant of _send_control_event: a send that raises leaves the sender
\* enabled
WSendEventKeepsOn(e) ==
    /\ Calls < MaxEvents
    /\ IF wrk.control_socket_client = None \/ wrk.stop_control_send
       THEN /\ wrk' = [wrk EXCEPT !.dropped = @ + 1, !.last = "dropped"]
            /\ cch' = cch
       ELSE IF ControlSendOK
       THEN /\ wrk' = [wrk EXCEPT !.attempts = @ + 1, !.last = "sent"]
            /\ cch' = [cch EXCEPT !.net = @ \o Message(JsonDumps(e)),
                                  !.sent = Append(@, JsonDumps(e))]
       ELSE /\ wrk' = [wrk EXCEPT !.attempts = @ + 1, !.failures = @ + 1,
                                  !.last = "failed"]
            /\ cch' = cch
    /\ UNCHANGED <<encoder_mode, is_muted, is_running, server_socket,
                   audio_socket, control_socket_listener, client_conn,
                   audio_client_conn, control_client_conn, media_process,
                   media_thread, stop_stream, stop_heartbeat, stop_control,
                   lock, conn, nconn, lclosed, thr, proc, rst, nrst, hb, srv,
                   gui, stp, stopped_emits, startup_failed_emits, host, aud,
                   aconn, hcc, monitor_dims, mouse, keyboard, config_file, ctl,
                   audio_sent, jpeg_quality, client_worker,
                   screen_capture_rate, command>>

\* lines 123-133: _send_control_event(event_type, data). Without a control
\* socket or with _stop_control_send_event set the event is dropped. Otherwise
\* one sendall is attempted; if it raises (BrokenPipeError,
\* ConnectionResetError, OSError) the event is lost and
\* _stop_control_send_event is set. last is the outcome of the latest call.
WSendEvent(e) ==
    /\ Calls < MaxEvents
    /\ IF wrk.control_socket_client = None \/ wrk.stop_control_send
       THEN /\ wrk' = [wrk EXCEPT !.dropped = @ + 1, !.last = "dropped"]
            /\ cch' = cch
       ELSE IF ControlSendOK
       THEN /\ wrk' = [wrk EXCEPT !.attempts = @ + 1, !.last = "sent"]
            /\ cch' = [cch EXCEPT !.net = @ \o Message(JsonDumps(e)),
                                  !.sent = Append(@, JsonDumps(e))]
       ELSE /\ wrk' = [wrk EXCEPT !.attempts = @ + 1, !.failures = @ + 1,
                                  !.last = "failed",
                                  !.stop_control_send = TRUE]
            /\ cch' = cch
    /\ UNCHANGED <<encoder_mode, is_muted, is_running, server_socket,
                   audio_socket, control_socket_listener, client_conn,
                   audio_client_conn, control_client_conn, media_process,
                   media_thread, stop_stream, stop_heartbeat, stop_control,
                   lock, conn, nconn, lclosed, thr, proc, rst, nrst, hb, srv,
                   gui, stp, stopped_emits, startup_failed_emits, host, aud,
                   aconn, hcc, monitor_dims, mouse, keyboard, config_file, ctl,
                   audio_sent, jpeg_quality, client_worker,
                   screen_capture_rate, command>>

\* the network breaks the control connection: from now on a send on it raises
\* BrokenPipeError or ConnectionResetError and a recv raises
ControlReset ==
    /\ "-" # cch.pending \/ "-" # cch.from
    /\ cch.peer = "open"
    /\ cch' = [cch EXCEPT !.peer = "reset"]
    /\ UNCHANGED <<encoder_mode, is_muted, is_running, server_socket,
                   audio_socket, control_socket_listener, client_conn,
                   audio_client_conn, control_client_conn, media_process,
                   media_thread, stop_stream, stop_heartbeat, stop_control,
                   lock, conn, nconn, lclosed, thr, proc, rst, nrst, hb, srv,
                   gui, stp, stopped_emits, startup_failed_emits, host, aud,
                   aconn, wrk, hcc, monitor_dims, mouse, keyboard, config_file,
                   ctl, audio_sent, jpeg_quality, client_worker,
                   screen_capture_rate, command>>

\* a control client other than PyViewer connects to the control port of a host
\* whose viewer opens no control connection of its own
ForeignConnect ==
    /\ ~wrk.pynput
    /\ ControlListening
    /\ cch.pending = "-" /\ cch.from = "-"
    /\ cch' = [cch EXCEPT !.pending = "foreign"]
    /\ UNCHANGED <<encoder_mode, is_muted, is_running, server_socket,
                   audio_socket, control_socket_listener, client_conn,
                   audio_client_conn, control_client_conn, media_process,
                   media_thread, stop_stream, stop_heartbeat, stop_control,
                   lock, conn, nconn, lclosed, thr, proc, rst, nrst, hb, srv,
                   gui, stp, stopped_emits, startup_failed_emits, host, aud,
                   aconn, wrk, hcc, monitor_dims, mouse, keyboard, config_file,
                   ctl, audio_sent, jpeg_quality, client_worker,
                   screen_capture_rate, command>>

\* the foreign control client writes a line
ForeignSend(line) ==
    /\ "foreign" \in {cch.pending, cch.from}
    /\ Len(cch.sent) < MaxEvents
    /\ ControlSendOK
    /\ cch' = [cch EXCEPT !.net = @ \o Message(line),
                          !.sent = Append(@, line)]
    /\ UNCHANGED <<encoder_mode, is_muted, is_running, server_socket,
                   audio_socket, control_socket_listener, client_conn,
                   audio_client_conn, control_client_conn, media_process,
                   media_thread, stop_stream, stop_heartbeat, stop_control,
                   lock, conn, nconn, lclosed, thr, proc, rst, nrst, hb, srv,
                   gui, stp, stopped_emits, startup_failed_emits, host, aud,
                   aconn, wrk, hcc, monitor_dims, mouse, keyboard, config_file,
                   ctl, audio_sent, jpeg_quality, client_worker,
                   screen_capture_rate, command>>

(***************************************************************************)
(* _control_listener_loop (lines 485-505) and _handle_control_client       *)
(* (lines 508-536): the control threads of the host.                       *)
(***************************************************************************)

\* lines 488-495: while is_running and no control connection is held, accept
\* one, publish it, clear _stop_control_event and start its handler thread
CtlAccept ==
    /\ is_running
    /\ control_client_conn = None
    /\ ControlListening
    /\ cch.pending # "-"
    /\ cch' = [cch EXCEPT !.pending = "-", !.from = cch.pending]
    /\ control_client_conn' = Bound
    /\ stop_control' = FALSE
    /\ hcc' = [hcc EXCEPT !.pc = "h_loop"]
    /\ UNCHANGED <<encoder_mode, is_muted, is_running, server_socket,
                   audio_socket, control_socket_listener, client_conn,
                   audio_client_conn, media_process, media_thread, stop_stream,
                   stop_heartbeat, lock, conn, nconn, lclosed, thr, proc, rst,
                   nrst, hb, srv, gui, stp, stopped_emits,
                   startup_failed_emits, host, aud, aconn, wrk, monitor_dims,
                   mouse, keyboard, config_file, ctl, audio_sent, jpeg_quality,
                   client_worker, screen_capture_rate, command>>

\* lines 532-536: the finally of the handler: the field is nulled if it still
\* holds this connection, _stop_control_event is set, the connection is closed
HFinally ==
    /\ control_client_conn' = None
    /\ stop_control' = TRUE
    /\ cch' = [cch EXCEPT !.closes = Bump(@)]
    /\ hcc' = [hcc EXCEPT !.pc = "done"]

\* line 512: while self.is_running and not self._stop_control_event.is_set()
HLoop ==
    /\ hcc.pc = "h_loop"
    /\ IF is_running /\ ~stop_control
       THEN /\ hcc' = [hcc EXCEPT !.pc = "h_recv"]
            /\ UNCHANGED <<control_client_conn, stop_control, cch>>
       ELSE HFinally
    /\ UNCHANGED <<encoder_mode, is_muted, is_running, server_socket,
                   audio_socket, control_socket_listener, client_conn,
                   audio_client_conn, media_process, media_thread, stop_stream,
                   stop_heartbeat, lock, conn, nconn, lclosed, thr, proc, rst,
                   nrst, hb, srv, gui, stp, stopped_emits,
                   startup_failed_emits, host, aud, aconn, wrk, monitor_dims,
                   mouse, keyboard, config_file, ctl, audio_sent, jpeg_quality,
                   client_worker, screen_capture_rate, command>>

\* line 513: bytes.decode('utf-8') raises UnicodeDecodeError on a byte sequence
\* that is not UTF-8
Decodes(chunk) == \A i \in 1..Len(chunk) : chunk[i] # "xff"

\* position of the first newline of a text that has one
FirstNewline(s) ==
    CHOOSE i \in 1..Len(s) :
        s[i] = "\n" /\ \A j \in 1..(i - 1) : s[j] # "\n"

\* lines 518-519: while "\n" in buffer: line, buffer = buffer.split("\n", 1).
\* The complete lines of a text, in order.
RECURSIVE Lines(_)
Lines(s) ==
    IF \E i \in 1..Len(s) : s[i] = "\n"
    THEN <<SubSeq(s, 1, FirstNewline(s) - 1)>>
             \o Lines(SubSeq(s, FirstNewline(s) + 1, Len(s)))
    ELSE <<>>

\* what is left in buffer after the complete lines
RECURSIVE Rest(_)
Rest(s) ==
    IF \E i \in 1..Len(s) : s[i] = "\n"
    THEN Rest(SubSeq(s, FirstNewline(s) + 1, Len(s)))
    ELSE s

\* lines 521-526: json.loads(line) and process_control_event(event_data) run
\* to the dispatch on event_data['type'] only for an object with 'type' and
\* 'data'; json.JSONDecodeError and the KeyError or TypeError of lines 544-545
\* are caught and logged
WellFormed(line) ==
    /\ Len(line) = 3
    /\ line[1] = "{" /\ line[2] \in Events /\ line[3] = "}"

\* the events dispatched for a sequence of lines, in order
RECURSIVE Dispatched(_)
Dispatched(lines) ==
    IF lines = <<>> THEN <<>>
    ELSE (IF WellFormed(Head(lines)) THEN <<Head(lines)[2]>> ELSE <<>>)
             \o Dispatched(Tail(lines))

\* variant of the handler: what is left of a read is not kept for the next
HRecvNoBuffer(n) ==
    /\ hcc.pc = "h_recv"
    /\ cch.closes = 0 /\ cch.peer # "reset"
    /\ n \in 1..Len(cch.net)
    /\ LET chunk == SubSeq(cch.net, 1, n)
       IN  /\ hcc' = [hcc EXCEPT
                        !.pc = "h_loop",
                        !.rcvd = @ \o chunk,
                        !.buffer = <<>>,
                        !.dispatched = @ \o Dispatched(Lines(chunk))]
           /\ cch' = [cch EXCEPT !.net = SubSeq(cch.net, n + 1, Len(cch.net))]
    /\ UNCHANGED <<encoder_mode, is_muted, is_running, server_socket,
                   audio_socket, control_socket_listener, client_conn,
                   audio_client_conn, control_client_conn, media_process,
                   media_thread, stop_stream, stop_heartbeat, stop_control,
                   lock, conn, nconn, lclosed, thr, proc, rst, nrst, hb, srv,
                   gui, stp, stopped_emits, startup_failed_emits, host, aud,
                   aconn, wrk, monitor_dims, mouse, keyboard, config_file, ctl,
                   audio_sent, jpeg_quality, client_worker,
                   screen_capture_rate, command>>

\* lines 513-526: recv returns the next n bytes of the stream; they are decoded
\* and appended to buffer, and every complete line of buffer is parsed and
\* dispatched. A chunk that does not decode raises out of the loop (line 529)
\* into the finally.
HRecv(n) ==
    /\ hcc.pc = "h_recv"
    /\ cch.closes = 0 /\ cch.peer # "reset"
    /\ n \in 1..Len(cch.net)
    /\ LET chunk == SubSeq(cch.net, 1, n)
           left == SubSeq(cch.net, n + 1, Len(cch.net))
       IN  IF Decodes(chunk)
           THEN /\ hcc' = [hcc EXCEPT
                             !.pc = "h_loop",
                             !.rcvd = @ \o chunk,
                             !.buffer = Rest(hcc.buffer \o chunk),
                             !.dispatched =
                                 @ \o Dispatched(Lines(hcc.buffer \o chunk))]
                /\ cch' = [cch EXCEPT !.net = left]
                /\ UNCHANGED <<control_client_conn, stop_control>>
           ELSE /\ control_client_conn' = None
                /\ stop_control' = TRUE
                /\ cch' = [cch EXCEPT !.net = left, !.closes = Bump(@)]
                /\ hcc' = [hcc EXCEPT !.pc = "done", !.rcvd = @ \o chunk]
    /\ UNCHANGED <<encoder_mode, is_muted, is_running, server_socket,
                   audio_socket, control_socket_listener, client_conn,
                   audio_client_conn, media_process, media_thread, stop_stream,
                   stop_heartbeat, lock, conn, nconn, lclosed, thr, proc, rst,
                   nrst, hb, srv, gui, stp, stopped_emits,
                   startup_failed_emits, host, aud, aconn, wrk, monitor_dims,
                   mouse, keyboard, config_file, ctl, audio_sent, jpeg_quality,
                   client_worker, screen_capture_rate, command>>

\* lines 513-516, 527-528: recv returns nothing (the peer has closed and all
\* its bytes were read) or raises (the connection was reset, or shut down and
\* closed by the host)
HRecvEnd ==
    /\ hcc.pc = "h_recv"
    /\ \/ cch.closes > 0
       \/ cch.peer = "reset"
       \/ cch.peer = "closed" /\ cch.net = <<>>
    /\ HFinally
    /\ UNCHANGED <<encoder_mode, is_muted, is_running, server_socket,
                   audio_socket, control_socket_listener, client_conn,
                   audio_client_conn, media_process, media_thread, stop_stream,
                   stop_heartbeat, lock, conn, nconn, lclosed, thr, proc, rst,
                   nrst, hb, srv, gui, stp, stopped_emits,
                   startup_failed_emits, host, aud, aconn, wrk, monitor_dims,
                   mouse, keyboard, config_file, ctl, audio_sent, jpeg_quality,
                   client_worker, screen_capture_rate, command>>

Control == CtlAccept \/ HLoop \/ HRecvEnd \/ \E n \in 1..(4 * MaxEvents) : HRecv(n)

(***************************************************************************)
(* stream_ffmpeg (lines 647-730): a media thread of kind "F".              *)
(***************************************************************************)

\* lines 649-707: if ffmpeg is not found the thread returns (line 651: no
\* event is set, the finally of line 726 is not entered); otherwise the command
\* is built, Popen, and the process is published in self.media_process
FPopen(t) ==
    /\ thr[t].pc = "f_popen"
    /\ IF host.ffmpeg
       THEN /\ proc' = [proc EXCEPT ![t] = "alive"]
            /\ media_process' = t
            /\ thr' = [thr EXCEPT ![t].pc = "f_loop"]
       ELSE /\ thr' = [thr EXCEPT ![t].pc = "done"]
            /\ UNCHANGED <<proc, media_process>>
    /\ UNCHANGED <<encoder_mode, is_muted, is_running, server_socket,
                   audio_socket, control_socket_listener, client_conn,
                   audio_client_conn, control_client_conn, media_thread,
                   stop_stream, stop_heartbeat, stop_control, lock, conn,
                   nconn, lclosed, rst, nrst, hb, srv, gui, stp, stopped_emits,
                   startup_failed_emits, host, aud, aconn, wrk, cch, hcc,
                   monitor_dims, mouse, keyboard, config_file, ctl, audio_sent,
                   jpeg_quality, client_worker, screen_capture_rate, command>>

\* the encoder process exits by itself (its input vanished, it crashed)
EncoderExit(t) ==
    /\ proc[t] = "alive"
    /\ proc' = [proc EXCEPT ![t] = "exited"]
    /\ UNCHANGED <<encoder_mode, is_muted, is_running, server_socket,
                   audio_socket, control_socket_listener, client_conn,
                   audio_client_conn, control_client_conn, media_process,
                   media_thread, stop_stream, stop_heartbeat, stop_control,
                   lock, conn, nconn, lclosed, thr, rst, nrst, hb, srv, gui,
                   stp, stopped_emits, startup_failed_emits, host, aud, aconn,
                   wrk, cch, hcc, monitor_dims, mouse, keyboard, config_file,
                   ctl, audio_sent, jpeg_quality, client_worker,
                   screen_capture_rate, command>>

\* lines 709-715: the loop condition, the break test and the blocking read of
\* one chunk from self.media_process.stdout (a live encoder keeps producing).
\* self.media_process None raises AttributeError (-> line 724 -> finally).
FLoop(t) ==
    /\ thr[t].pc = "f_loop"
    /\ thr' = [thr EXCEPT ![t].pc =
                 IF /\ is_running /\ ~stop_stream
                    /\ client_conn # None
                    /\ media_process # None
                    /\ proc[media_process] = "alive"
                 THEN "f_send" ELSE "f_fin"]
    /\ UNCHANGED <<encoder_mode, is_muted, is_running, server_socket,
                   audio_socket, control_socket_listener, client_conn,
                   audio_client_conn, control_client_conn, media_process,
                   media_thread, stop_stream, stop_heartbeat, stop_control,
                   lock, conn, nconn, lclosed, proc, rst, nrst, hb, srv, gui,
                   stp, stopped_emits, startup_failed_emits, host, aud, aconn,
                   wrk, cch, hcc, monitor_dims, mouse, keyboard, config_file,
                   ctl, audio_sent, jpeg_quality, client_worker,
                   screen_capture_rate, command>>

\* lines 716-721: self.client_conn.sendall(chunk). The field is read now: None
\* raises AttributeError (-> line 724); a socket error sets the heartbeat stop
\* event and breaks.
FSend(t) ==
    /\ thr[t].pc = "f_send"
    /\ IF client_conn = None
       THEN /\ thr' = [thr EXCEPT ![t].pc = "f_fin"]
            /\ UNCHANGED <<conn, stop_heartbeat>>
       ELSE IF SendOK(client_conn)
       THEN /\ conn' = Written(client_conn, "P")
            /\ thr' = [thr EXCEPT ![t].pc = "f_loop"]
            /\ UNCHANGED stop_heartbeat
       ELSE /\ stop_heartbeat' = TRUE
            /\ thr' = [thr EXCEPT ![t].pc = "f_fin"]
            /\ conn' = Failed(client_conn)
    /\ UNCHANGED <<encoder_mode, is_muted, is_running, server_socket,
                   audio_socket, control_socket_listener, client_conn,
                   audio_client_conn, control_client_conn, media_process,
                   media_thread, stop_stream, stop_control, lock, nconn,
                   lclosed, proc, rst, nrst, hb, srv, gui, stp, stopped_emits,
                   startup_failed_emits, host, aud, aconn, wrk, cch, hcc,
                   monitor_dims, mouse, keyboard, config_file, ctl, audio_sent,
                   jpeg_quality, client_worker, screen_capture_rate, command>>

\* lines 727-729: if self.media_process and poll() is None: terminate(); then
\* self.media_process = None
FFin(t) ==
    /\ thr[t].pc = "f_fin"
    /\ proc' = IF media_process # None /\ proc[media_process] = "alive"
               THEN Terminated(media_process) ELSE proc
    /\ media_process' = None
    /\ thr' = [thr EXCEPT ![t].pc = "done"]
    /\ UNCHANGED <<encoder_mode, is_muted, is_running, server_socket,
                   audio_socket, control_socket_listener, client_conn,
                   audio_client_conn, control_client_conn, media_thread,
                   stop_stream, stop_heartbeat, stop_control, lock, conn,
                   nconn, lclosed, rst, nrst, hb, srv, gui, stp, stopped_emits,
                   startup_failed_emits, host, aud, aconn, wrk, cch, hcc,
                   monitor_dims, mouse, keyboard, config_file, ctl, audio_sent,
                   jpeg_quality, client_worker, screen_capture_rate, command>>

(***************************************************************************)
(* stream_screen (lines 769-841): a media thread of kind "L"; the X11 and  *)
(* Wayland loops have the same shape.                                      *)
(***************************************************************************)

\* lines 776, 817: if not self.client_conn: return
LEntry(t) ==
    /\ thr[t].pc = "l_entry"
    /\ thr' = [thr EXCEPT ![t].pc = IF client_conn = None THEN "done"
                                    ELSE "l_loop"]
    /\ UNCHANGED <<encoder_mode, is_muted, is_running, server_socket,
                   audio_socket, control_socket_listener, client_conn,
                   audio_client_conn, control_client_conn, media_process,
                   media_thread, stop_stream, stop_heartbeat, stop_control,
                   lock, conn, nconn, lclosed, proc, rst, nrst, hb, srv, gui,
                   stp, stopped_emits, startup_failed_emits, host, aud, aconn,
                   wrk, cch, hcc, monitor_dims, mouse, keyboard, config_file,
                   ctl, audio_sent, jpeg_quality, client_worker,
                   screen_capture_rate, command>>

\* lines 777-801, 821-828: the loop condition, then one frame is captured
capture_frame(t) ==
    /\ thr[t].pc = "l_loop"
    /\ thr' = [thr EXCEPT ![t].pc = IF is_running /\ ~stop_stream THEN "l_send"
                                    ELSE "done"]

\* the same where the settings of the frame are not kept
LLoop(t) ==
    /\ capture_frame(t)
    /\ UNCHANGED <<encoder_mode, is_muted, is_running, server_socket,
                   audio_socket, control_socket_listener, client_conn,
                   audio_client_conn, control_client_conn, media_process,
                   media_thread, stop_stream, stop_heartbeat, stop_control,
                   lock, conn, nconn, lclosed, proc, rst, nrst, hb, srv, gui,
                   stp, stopped_emits, startup_failed_emits, host, aud, aconn,
                   wrk, cch, hcc, monitor_dims, mouse, keyboard, config_file,
                   ctl, audio_sent, jpeg_quality, client_worker,
                   screen_capture_rate, command>>

\* lines 803-812, 829-838: the length and the image are sent. The field is read
\* now: None raises AttributeError (except Exception: break, no event); a
\* socket error sets the heartbeat stop event and breaks.
LSend(t) ==
    /\ thr[t].pc = "l_send"
    /\ IF client_conn = None
       THEN /\ thr' = [thr EXCEPT ![t].pc = "done"]
            /\ UNCHANGED <<conn, stop_heartbeat>>
       ELSE IF SendOK(client_conn)
       THEN /\ conn' = Written(client_conn, "P")
            /\ thr' = [thr EXCEPT ![t].pc = "l_loop"]
            /\ UNCHANGED stop_heartbeat
       ELSE /\ stop_heartbeat' = TRUE
            /\ thr' = [thr EXCEPT ![t].pc = "done"]
            /\ conn' = Failed(client_conn)
    /\ UNCHANGED <<encoder_mode, is_muted, is_running, server_socket,
                   audio_socket, control_socket_listener, client_conn,
                   audio_client_conn, control_client_conn, media_process,
                   media_thread, stop_stream, stop_control, lock, nconn,
                   lclosed, proc, rst, nrst, hb, srv, gui, stp, stopped_emits,
                   startup_failed_emits, host, aud, aconn, wrk, cch, hcc,
                   monitor_dims, mouse, keyboard, config_file, ctl, audio_sent,
                   jpeg_quality, client_worker, screen_capture_rate, command>>

\* lines 777-801, 806-812 and 821-828, 832-838: the capture of a frame raises.
\* An error of the capture provider (CalledProcessError, TimeoutExpired,
\* ScreenShotError) is caught with the socket errors: the heartbeat stop event
\* is set. Any other exception (the screenshot tool gone, an image that
\* cannot be converted) is caught by except Exception: break, no event.
LCaptureError(t) ==
    /\ thr[t].pc = "l_loop"
    /\ is_running /\ ~stop_stream
    /\ \E provider \in BOOLEAN :
           stop_heartbeat' = IF provider THEN TRUE ELSE stop_heartbeat
    /\ thr' = [thr EXCEPT ![t].pc = "done"]
    /\ UNCHANGED <<encoder_mode, is_muted, is_running, server_socket,
                   audio_socket, control_socket_listener, client_conn,
                   audio_client_conn, control_client_conn, media_process,
                   media_thread, stop_stream, stop_control, lock, conn, nconn,
                   lclosed, proc, rst, nrst, hb, srv, gui, stp, stopped_emits,
                   startup_failed_emits, host, aud, aconn, wrk, cch, hcc,
                   monitor_dims, mouse, keyboard, config_file, ctl, audio_sent,
                   jpeg_quality, client_worker, screen_capture_rate, command>>

\* a media thread running stream_ffmpeg
Ffmpeg(t) == FPopen(t) \/ FLoop(t) \/ FSend(t) \/ FFin(t)

\* a media thread running stream_screen
Screen(t) == LEntry(t) \/ LLoop(t) \/ LSend(t)

Media(t) == Ffmpeg(t) \/ Screen(t)

(***************************************************************************)
(* stream_audio (lines 732-767): the audio thread of a Legacy session.     *)
(***************************************************************************)

\* lines 734-748: if not self.audio_client_conn: return; then parec is started
AEntry ==
    /\ aud.pc = "a_entry"
    /\ aud' = IF audio_client_conn = None THEN [aud EXCEPT !.pc = "done"]
              ELSE [pc |-> "a_loop", parec |-> "alive"]
    /\ UNCHANGED <<encoder_mode, is_muted, is_running, server_socket,
                   audio_socket, control_socket_listener, client_conn,
                   audio_client_conn, control_client_conn, media_process,
                   media_thread, stop_stream, stop_heartbeat, stop_control,
                   lock, conn, nconn, lclosed, thr, proc, rst, nrst, hb, srv,
                   gui, stp, stopped_emits, startup_failed_emits, host, aconn,
                   wrk, cch, hcc, monitor_dims, mouse, keyboard, config_file,
                   ctl, audio_sent, jpeg_quality, client_worker,
                   screen_capture_rate, command>>

\* parec exits by itself
ParecExit ==
    /\ aud.parec = "alive"
    /\ aud' = [aud EXCEPT !.parec = "exited"]
    /\ UNCHANGED <<encoder_mode, is_muted, is_running, server_socket,
                   audio_socket, control_socket_listener, client_conn,
                   audio_client_conn, control_client_conn, media_process,
                   media_thread, stop_stream, stop_heartbeat, stop_control,
                   lock, conn, nconn, lclosed, thr, proc, rst, nrst, hb, srv,
                   gui, stp, stopped_emits, startup_failed_emits, host, aconn,
                   wrk, cch, hcc, monitor_dims, mouse, keyboard, config_file,
                   ctl, audio_sent, jpeg_quality, client_worker,
                   screen_capture_rate, command>>

\* lines 764-766: the finally of stream_audio terminates a running parec
AudioEnded ==
    [pc |-> "done", parec |-> IF aud.parec = "alive" THEN "dead" ELSE aud.parec]

\* lines 750-755: the loop condition and the read of one chunk; an
\* empty read (parec has exited) breaks
ALoop ==
    /\ aud.pc = "a_loop"
    /\ aud' = IF is_running /\ ~stop_stream /\ aud.parec = "alive"
              THEN [aud EXCEPT !.pc = "a_send"]
              ELSE AudioEnded
    /\ UNCHANGED <<encoder_mode, is_muted, is_running, server_socket,
                   audio_socket, control_socket_listener, client_conn,
                   audio_client_conn, control_client_conn, media_process,
                   media_thread, stop_stream, stop_heartbeat, stop_control,
                   lock, conn, nconn, lclosed, thr, proc, rst, nrst, hb, srv,
                   gui, stp, stopped_emits, startup_failed_emits, host, aconn,
                   wrk, cch, hcc, monitor_dims, mouse, keyboard, config_file,
                   ctl, audio_sent, jpeg_quality, client_worker,
                   screen_capture_rate, command>>

\* lines 755-761, 762-766: if not self.is_muted: sendall. The field is read
\* now: None raises AttributeError (line 762, no event); a socket error sets
\* the heartbeat stop event and breaks.
stream_audio_chunk ==
    /\ aud.pc = "a_send"
    /\ IF is_muted
       THEN /\ aud' = [aud EXCEPT !.pc = "a_loop"]
            /\ UNCHANGED stop_heartbeat
       ELSE IF audio_client_conn = None
       THEN /\ aud' = AudioEnded
            /\ UNCHANGED stop_heartbeat
       ELSE IF aconn.closes = 0 /\ aconn.peer = "open"
       THEN /\ aud' = [aud EXCEPT !.pc = "a_loop"]
            /\ UNCHANGED stop_heartbeat
       ELSE /\ aud' = AudioEnded
            /\ stop_heartbeat' = TRUE

\* the same where what is written is not kept
ASend ==
    /\ stream_audio_chunk
    /\ UNCHANGED <<encoder_mode, is_muted, is_running, server_socket,
                   audio_socket, control_socket_listener, client_conn,
                   audio_client_conn, control_client_conn, media_process,
                   media_thread, stop_stream, stop_control, lock, conn, nconn,
                   lclosed, thr, proc, rst, nrst, hb, srv, gui, stp,
                   stopped_emits, startup_failed_emits, host, aconn, wrk, cch,
                   hcc, monitor_dims, mouse, keyboard, config_file, ctl,
                   audio_sent, jpeg_quality, client_worker,
                   screen_capture_rate, command>>

Audio == AEntry \/ ALoop \/ ASend

(***************************************************************************)
(* _connection_heartbeat (lines 297-305) and the viewers.                  *)
(***************************************************************************)

\* lines 303-305: the loop ends once the heartbeat stop event is set
Heartbeat ==
    /\ hb = "run"
    /\ stop_heartbeat
    /\ hb' = "done"
    /\ UNCHANGED <<encoder_mode, is_muted, is_running, server_socket,
                   audio_socket, control_socket_listener, client_conn,
                   audio_client_conn, control_client_conn, media_process,
                   media_thread, stop_stream, stop_heartbeat, stop_control,
                   lock, conn, nconn, lclosed, thr, proc, rst, nrst, srv, gui,
                   stp, stopped_emits, startup_failed_emits, host, aud, aconn,
                   wrk, cch, hcc, monitor_dims, mouse, keyboard, config_file,
                   ctl, audio_sent, jpeg_quality, client_worker,
                   screen_capture_rate, command>>

\* a viewer closes its end of an accepted video connection
ViewerDisconnect(c) ==
    /\ c <= nconn
    /\ conn[c].peer = "open"
    /\ conn' = [conn EXCEPT ![c].peer = "closed"]
    /\ UNCHANGED <<encoder_mode, is_muted, is_running, server_socket,
                   audio_socket, control_socket_listener, client_conn,
                   audio_client_conn, control_client_conn, media_process,
                   media_thread, stop_stream, stop_heartbeat, stop_control,
                   lock, nconn, lclosed, thr, proc, rst, nrst, hb, srv, gui,
                   stp, stopped_emits, startup_failed_emits, host, aud, aconn,
                   wrk, cch, hcc, monitor_dims, mouse, keyboard, config_file,
                   ctl, audio_sent, jpeg_quality, client_worker,
                   screen_capture_rate, command>>

\* the server thread apart from the arrival of connections and the audio
\* accept of a Legacy session
ServerSteps ==
    \/ SrvStart \/ SrvAcceptTimeout
    \/ SrvSendMode \/ SrvClearHeartbeat
    \/ SrvClearStream \/ SrvStartThread
    \/ SrvJoinHeartbeat \/ SrvClEvents \/ SrvClTerm \/ SrvClProcNull
    \/ SrvClConnClose \/ SrvClConnNull \/ SrvFinally

\* the server thread serving at most max viewers; the listeners stay open
\* until the thread itself stops the host
Server(max) ==
    SrvAcceptConn(max) \/ ServerSteps \/ SrvAudioTimeout \/ StopServer("srv")

\* Sessions and live reconfiguration: the server thread, the settings handlers
\* of the GUI thread, the restart threads, the media threads, the heartbeat and
\* the viewers. The host is not stopped from the GUI.
Next ==
    \/ Server(LiveSessions)
    \/ \E m \in Modes : UpdateEncoderMode(m)
    \/ ToggleMute
    \/ \E r \in Restarts : Restart(r)
    \/ \E t \in Threads : Media(t)
    \/ Heartbeat
    \/ \E c \in Conns : ViewerDisconnect(c)

Spec == Init /\ [][Next]_vars

\* Teardown: the server thread and its sessions, and the GUI thread stopping the
\* host at any moment (closeEvent); no settings change, hence no restart.
NextStop ==
    \/ Server(MaxSessions)
    \/ SrvAcceptError
    \/ SrvAudioError
    \/ GuiStop
    \/ StopServer("gui")
    \/ \E t \in Threads : Media(t)
    \/ Heartbeat
    \/ \E c \in Conns : ViewerDisconnect(c)

SpecStop == Init /\ [][NextStop]_vars

\* stop_server called by the server thread after a session that never started
\* its pipeline (no encoder is published in media_process)
StopNoEncoder ==
    \/ StopBegin("srv") \/ StopProcCheck("srv")
    \/ StopCloseConn("srv") \/ StopNullConn("srv")
    \/ StopCloseListeners("srv") \/ StopNullListeners("srv")

\* accept returns the video connection of the Worker, once it has connected
HostAccept == wrk.pc = "w_mode" /\ SrvAcceptConn(WorkerConn)

\* A host on any machine serving one PyViewer client: the server thread, the
\* media, audio and heartbeat threads, the encoder and capture tools that can
\* fail, and the client's Worker. Nobody changes the settings or stops the
\* host.
NextHost ==
    \/ ServerSteps
    \/ StopNoEncoder
    \/ HostAccept
    \/ SrvAudioAccept
    \/ SrvAudioTimeout
    \/ \E t \in Threads : Media(t) \/ EncoderExit(t) \/ LCaptureError(t)
    \/ Audio
    \/ ParecExit
    \/ Heartbeat
    \/ Worker
    \/ WUserDisconnect

SpecHost == InitHost /\ [][NextHost]_vars

\* The control channel during FFmpeg sessions of a host that has everything:
\* the server, media and heartbeat threads, the control listener and handler
\* threads, the Worker and the input events of its user, a foreign control
\* client when the viewer opens no control connection itself, and a network
\* that can break the control connection.
NextControl ==
    \/ ServerSteps
    \/ StopNoEncoder
    \/ HostAccept
    \/ \E t \in Threads : Ffmpeg(t)
    \/ Heartbeat
    \/ WConnect \/ WRecvMode \/ WConnectControl
    \/ WUserDisconnect
    \/ Control
    \/ \E e \in Events : WSendEvent(e)
    \/ ForeignConnect
    \/ \E line \in ForeignLines : ForeignSend(line)
    \/ ControlReset

\* a host that provides everything, in FFmpeg mode, and a PyViewer client on
\* any machine
InitControl ==
    /\ Constructed
    /\ encoder_mode = "FFmpeg"
    /\ is_muted = FALSE
    /\ host = FullHost
    /\ wrk \in {NewWorker(p) : p \in BOOLEAN}
    /\ monitor_dims = Fallback

SpecControl == InitControl /\ [][NextControl]_vars

\* ---------------------------------------------------------------------------
\* process_control_event, mouse_move (lines 550-583)
\*
\* rel_x and rel_y are the rationals rx / den and ry / den; the arithmetic of
\* lines 557-577 is done over the rationals (the rounding of binary floating
\* point is not modelled). A viewer size of None stands for a size that is
\* missing or zero: "not client_width" (line 556) does not tell them apart.
\* ---------------------------------------------------------------------------

\* rel_x, rel_y of the events are multiples of 1 / RelDen ...
RelDen == 4
\* ... from -RelOver / RelDen to 1 + RelOver / RelDen
RelOver == 2
Rels == (0 - RelOver)..(RelDen + RelOver)

\* the monitor rectangles: width and height up to MaxDim, origin within
\* MaxOrigin of 0 on each axis (mss reports a negative origin when a monitor
\* lies left of or above the primary one)
MaxDim == 3
MaxOrigin == 1
Monitors ==
    [left : (0 - MaxOrigin)..MaxOrigin, top : (0 - MaxOrigin)..MaxOrigin,
     width : 1..MaxDim, height : 1..MaxDim]

\* client_video_width, client_video_height of the events
MaxSize == 3
Sizes == None..MaxSize

\* int(n / d) for d > 0: Python's int() truncates toward zero
Trunc(n, d) == IF n >= 0 THEN n \div d ELSE 0 - ((0 - n) \div d)

UnreportedBoth(cw, ch) == cw = None /\ ch = None

\* not client_width or not client_height (line 556)
Unreported(cw, ch) == cw = None \/ ch = None

\* client_aspect > server_aspect (line 565), cross-multiplied
Wider(m, cw, ch) == cw * m.height > m.width * ch

\* client_aspect < server_aspect (line 570), cross-multiplied
Taller(m, cw, ch) == cw * m.height < m.width * ch

\* the greatest common divisor: the ratios of lines 560-567 in lowest terms
RECURSIVE GCD(_, _)
GCD(a, b) == IF b = 0 THEN a ELSE GCD(b, a % b)

InBandBelow(rel, den, sn, sd) == 2 * sd * rel < den * (sd - sn)

\* rel < offset or rel > 1.0 - offset (lines 568, 573), for scale = sn / sd
\* and offset = (1 - scale) / 2 = (sd - sn) / (2 sd)
InBand(rel, den, sn, sd) ==
    LET n == sn \div GCD(sn, sd)
        d == sd \div GCD(sn, sd)
    IN  \/ 2 * d * rel < den * (d - n)
        \/ 2 * d * rel > den * (d + n)

CorrectedNoOffset(rel, den, sn, sd, dim) == Trunc(rel * sd * dim, den * sn)

\* int(((rel - offset) / scale) * dim) (lines 569/574 and 576/577)
Corrected(rel, den, sn, sd, dim) ==
    LET n == sn \div GCD(sn, sd)
        d == sd \div GCD(sn, sd)
    IN  Trunc((2 * d * rel - den * (d - n)) * dim, 2 * den * n)

\* the return of line 568 or 573
Dropped(m, rx, ry, den, cw, ch) ==
    /\ ~Unreported(cw, ch)
    /\ \/ Wider(m, cw, ch) /\ InBand(ry, den, m.width * ch, m.height * cw)
       \/ Taller(m, cw, ch) /\ InBand(rx, den, m.height * cw, m.width * ch)

\* target_x of line 557 or 576
TargetX(m, rx, den, cw, ch) ==
    IF ~Unreported(cw, ch) /\ Taller(m, cw, ch)
    THEN Corrected(rx, den, m.height * cw, m.width * ch, m.width) + m.left
    ELSE Trunc(rx * m.width, den) + m.left

\* target_y of line 558 or 577
TargetY(m, ry, den, cw, ch) ==
    IF ~Unreported(cw, ch) /\ Wider(m, cw, ch)
    THEN Corrected(ry, den, m.width * ch, m.height * cw, m.height) + m.top
    ELSE Trunc(ry * m.height, den) + m.top

Unclamped(v, lo, hi) == v

\* max(lo, min(v, hi)) (lines 581, 582)
Clamp(v, lo, hi) ==
    LET least == IF v < hi THEN v ELSE hi
    IN  IF lo > least THEN lo ELSE least

\* the position of line 583
Position(m, rx, ry, den, cw, ch) ==
    <<Clamp(TargetX(m, rx, den, cw, ch), m.left, m.left + m.width - 1),
      Clamp(TargetY(m, ry, den, cw, ch), m.top, m.top + m.height - 1)>>

\* the pointer after lines 551-583 for rel_x = rx / den, rel_y = ry / den
MouseAfter(m, rx, ry, den, cw, ch) ==
    IF Dropped(m, rx, ry, den, cw, ch)
    THEN [mouse EXCEPT !.last = "dropped"]
    ELSE [position |-> Position(m, rx, ry, den, cw, ch),
          target |-> <<TargetX(m, rx, den, cw, ch),
                       TargetY(m, ry, den, cw, ch)>>,
          last |-> "moved"]

\* process_control_event({'type': 'mouse_move', 'data': {'rel_x': rx / RelDen,
\* 'rel_y': ry / RelDen, 'client_video_width': cw, 'client_video_height':
\* ch}}) (lines 541-583)
MouseMove(rx, ry, cw, ch) ==
    /\ host.pynput
    /\ mouse' = MouseAfter(monitor_dims, rx, ry, RelDen, cw, ch)
    /\ UNCHANGED <<encoder_mode, is_muted, is_running, server_socket,
                   audio_socket, control_socket_listener, client_conn,
                   audio_client_conn, control_client_conn, media_process,
                   media_thread, stop_stream, stop_heartbeat, stop_control,
                   lock, conn, nconn, lclosed, thr, proc, rst, nrst, hb, srv,
                   gui, stp, stopped_emits, startup_failed_emits, host, aud,
                   aconn, wrk, cch, hcc, monitor_dims, keyboard, config_file,
                   ctl, audio_sent, jpeg_quality, client_worker,
                   screen_capture_rate, command>>

NextPointer ==
    \E rx \in Rels, ry \in Rels, cw \in Sizes, ch \in Sizes :
        MouseMove(rx, ry, cw, ch)

\* a host with pynput on any monitor rectangle, before any event
InitPointer ==
    /\ Constructed
    /\ encoder_mode = "FFmpeg"
    /\ is_muted = FALSE
    /\ host = FullHost
    /\ wrk = NewWorker(TRUE)
    /\ monitor_dims \in Monitors

SpecPointer == InitPointer /\ [][NextPointer]_vars

\* ---------------------------------------------------------------------------
\* One event dispatched by a host that has dispatched none: the handler's
\* process_control_event(json.loads(line)) (lines 521-522) for every event of
\* a bounded set, on every monitor rectangle of a bounded set.
\* ---------------------------------------------------------------------------

\* 'data' of a mouse_move event; rel_x = rel_x / den, rel_y = rel_y / den
MouseMoveData(rx, ry, den, cw, ch) ==
    [type |-> "mouse_move", rel_x |-> rx, rel_y |-> ry, den |-> den,
     client_video_width |-> cw, client_video_height |-> ch]

\* the mouse_move events of the bounded set
MouseMoves ==
    {MouseMoveData(rx, ry, RelDen, cw, ch) :
        rx \in Rels, ry \in Rels, cw \in Sizes, ch \in Sizes}

\* the two events of the worked example: a 2000x1000 viewer surface, the
\* pointer at half its width, rel_y = 0.03 and rel_y = 0.5
ExampleMoves == {MouseMoveData(50, ry, 100, 2000, 1000) : ry \in {3, 50}}

\* the members of pynput's keyboard.Key that the events name
KeyMembers == {"enter"}

\* keyboard_press and keyboard_release events with a 'name' (client lines
\* 667-682; a name is the text str(key) cut at its dots, and "nope" is no
\* member of keyboard.Key), and the keyboard_type event of the clipboard paste (client
\* line 526)
KeyEvents ==
    {[type |-> ty, name |-> n] :
        ty \in {"keyboard_press", "keyboard_release"},
        n \in {<<"Key", "enter">>, <<"Key", "nope">>, <<"nope">>}}
        \cup {[type |-> "keyboard_type", text |-> "abc"]}

DispatchedEvents == MouseMoves \cup ExampleMoves \cup KeyEvents

\* a variant of lines 593-603: the name's last part is pressed as it is
KeyboardAfterAnyName(ev) ==
    IF ev.type = "keyboard_press" THEN keyboard \cup {ev.name[Len(ev.name)]}
    ELSE IF ev.type = "keyboard_release"
    THEN keyboard \ {ev.name[Len(ev.name)]}
    ELSE keyboard

\* the keys held down after lines 593-603: getattr(keyboard.Key,
\* data['name'].split('.')[-1]) raises AttributeError for a name that is no
\* member, and line 597 or 603 passes
KeyboardAfter(ev) ==
    IF ev.type \in {"keyboard_press", "keyboard_release"}
          /\ ev.name[Len(ev.name)] \in KeyMembers
    THEN IF ev.type = "keyboard_press"
         THEN keyboard \cup {ev.name[Len(ev.name)]}
         ELSE keyboard \ {ev.name[Len(ev.name)]}
    ELSE keyboard

\* process_control_event(event_data) (lines 539-606)
ProcessControlEvent(ev) ==
    /\ host.pynput
    /\ mouse' = IF ev.type = "mouse_move"
                THEN MouseAfter(monitor_dims, ev.rel_x, ev.rel_y, ev.den,
                                ev.client_video_width, ev.client_video_height)
                ELSE mouse
    /\ keyboard' = KeyboardAfter(ev)

\* event_data = json.loads(line); process_control_event(event_data)
\* (lines 521-522) for the first line of a channel; whatever the call raises
\* is caught at line 525, and the handler is back at its loop (line 512)
Dispatch(ev) ==
    /\ hcc.dispatched = <<>>
    /\ hcc' = [hcc EXCEPT !.dispatched = <<ev>>, !.pc = "h_loop"]
    /\ ProcessControlEvent(ev)
    /\ UNCHANGED <<encoder_mode, is_muted, is_running, server_socket,
                   audio_socket, control_socket_listener, client_conn,
                   audio_client_conn, control_client_conn, media_process,
                   media_thread, stop_stream, stop_heartbeat, stop_control,
                   lock, conn, nconn, lclosed, thr, proc, rst, nrst, hb, srv,
                   gui, stp, stopped_emits, startup_failed_emits, host, aud,
                   aconn, wrk, cch, monitor_dims, config_file, ctl, audio_sent,
                   jpeg_quality, client_worker, screen_capture_rate, command>>

NextDispatch == \E ev \in DispatchedEvents : Dispatch(ev)

\* a host with pynput on any monitor rectangle, or on the fallback one
InitDispatch ==
    /\ Constructed
    /\ encoder_mode = "FFmpeg"
    /\ is_muted = FALSE
    /\ host = FullHost
    /\ wrk = NewWorker(TRUE)
    /\ monitor_dims \in Monitors \cup {Fallback}

SpecDispatch == InitDispatch /\ [][NextDispatch]_vars

\* ---------------------------------------------------------------------------
\* The viewer's pointer (src/pyviewer_client.py, ClientWindow.on_move and
\* get_video_rect) and the host's handling of the event it sends.
\*
\* A length on the viewer's widget is a rational <<numerator, denominator>>
\* with a positive denominator. The picture of the capture is shown with its
\* aspect ratio kept, centred in the widget (QLabel with AlignCenter and a
\* pixmap scaled with KeepAspectRatio at lines 377 and 547-551; ffplay in
\* the embedded window).
\* ---------------------------------------------------------------------------

\* a rational in lowest terms
Ratio(n, d) ==
    LET g == IF n < 0 THEN GCD(0 - n, d) ELSE GCD(n, d)
    IN  <<n \div g, d \div g>>

\* get_video_rect(widget_size, video_aspect_ratio) (lines 687-702) for a
\* widget of size[1] x size[2] and the aspect ratio aspect[1] / aspect[2]
get_video_rect(size, aspect) ==
    IF size[2] = 0
    THEN [x |-> <<0, 1>>, y |-> <<0, 1>>, width |-> <<0, 1>>,
          height |-> <<0, 1>>]
    ELSE IF size[1] * aspect[2] > aspect[1] * size[2]
    THEN [x |-> Ratio(size[1] * aspect[2] - size[2] * aspect[1],
                      2 * aspect[2]),
          y |-> <<0, 1>>,
          width |-> Ratio(size[2] * aspect[1], aspect[2]),
          height |-> <<size[2], 1>>]
    ELSE [x |-> <<0, 1>>,
          y |-> Ratio(size[2] * aspect[1] - size[1] * aspect[2],
                      2 * aspect[1]),
          width |-> <<size[1], 1>>,
          height |-> Ratio(size[1] * aspect[2], aspect[1])]

\* where the widget shows the middle of the capture's pixel (px, py): the
\* picture fills get_video_rect(size, width / height)
Displayed(m, size, px, py) ==
    LET shown == get_video_rect(size, <<m.width, m.height>>)
        at(off, len, p, dim) ==
            Ratio(off[1] * len[2] * 2 * dim + (2 * p + 1) * len[1] * off[2],
                  off[2] * len[2] * 2 * dim)
    IN  <<at(shown.x, shown.width, px, m.width),
          at(shown.y, shown.height, py, m.height)>>

NoEvent == <<>>

\* on_move (lines 627-647) with the pointer at widget_pos: the 'data' it
\* emits, or NoEvent where it returns
on_move(size, aspect, widget_pos) ==
    LET video_rect == get_video_rect(size, aspect)
        \* a - b, a <= b
        minus(a, b) == Ratio(a[1] * b[2] - b[1] * a[2], a[2] * b[2])
        leq(a, b) == a[1] * b[2] <= b[1] * a[2]
        plus(a, b) == Ratio(a[1] * b[2] + b[1] * a[2], a[2] * b[2])
        inside(pos, off, len) == leq(off, pos) /\ leq(pos, plus(off, len))
        relative_x == minus(widget_pos[1], video_rect.x)
        relative_y == minus(widget_pos[2], video_rect.y)
        \* max(0.0, min(1.0, relative / length))
        rel(relative, len) ==
            IF relative[1] < 0 THEN <<0, 1>>
            ELSE IF ~leq(relative, len) THEN <<1, 1>>
            ELSE Ratio(relative[1] * len[2], relative[2] * len[1])
        rel_x == rel(relative_x, video_rect.width)
        rel_y == rel(relative_y, video_rect.height)
    IN  IF \/ ~inside(widget_pos[1], video_rect.x, video_rect.width)
           \/ ~inside(widget_pos[2], video_rect.y, video_rect.height)
           \/ ~leq(<<1, 1>>, video_rect.width)
           \/ ~leq(<<1, 1>>, video_rect.height)
        THEN NoEvent
        ELSE MouseMoveData(rel_x[1] * rel_y[2], rel_y[1] * rel_x[2],
                           rel_x[2] * rel_y[2], None, None)

\* video_aspect_ratio: 16 / 9 (line 273) until update_legacy_frame sets it to
\* the frame's (line 543); no FFmpeg stream ever sets it
video_aspect_ratio(m) ==
    IF encoder_mode = "Legacy" THEN <<m.width, m.height>> ELSE <<16, 9>>

\* the viewer's widget sizes
WidgetSizes == {<<16, 9>>, <<12, 12>>, <<9, 16>>, <<32, 24>>}

\* capture rectangles large enough for a distance of more than one pixel
Screens ==
    Monitors \cup {[left |-> 0, top |-> 0, width |-> 16, height |-> 9],
                   [left |-> 0, top |-> 0, width |-> 16, height |-> 12]}

\* the pixels the user points at: the corners and the middle
Pixels(m) ==
    {0, m.width \div 2, m.width - 1} \X {0, m.height \div 2, m.height - 1}

\* the user puts the pointer where the viewer shows the capture's pixel
\* (px, py); on_move sends what it computes and the host's handler dispatches
\* it (host lines 521-522)
PointAt(px, py) ==
    /\ wrk.pointed = <<>>
    /\ hcc.dispatched = <<>>
    /\ wrk' = [wrk EXCEPT !.pointed = <<px, py>>]
    /\ LET ev == on_move(wrk.size, video_aspect_ratio(monitor_dims),
                         Displayed(monitor_dims, wrk.size, px, py))
       IN  IF ev = NoEvent
           THEN UNCHANGED <<hcc, mouse, keyboard>>
           ELSE /\ hcc' = [hcc EXCEPT !.dispatched = <<ev>>]
                /\ ProcessControlEvent(ev)
    /\ UNCHANGED <<encoder_mode, is_muted, is_running, server_socket,
                   audio_socket, control_socket_listener, client_conn,
                   audio_client_conn, control_client_conn, media_process,
                   media_thread, stop_stream, stop_heartbeat, stop_control,
                   lock, conn, nconn, lclosed, thr, proc, rst, nrst, hb, srv,
                   gui, stp, stopped_emits, startup_failed_emits, host, aud,
                   aconn, cch, monitor_dims, config_file, ctl, audio_sent,
                   jpeg_quality, client_worker, screen_capture_rate, command>>

NextRoundTrip == \E p \in Pixels(monitor_dims) : PointAt(p[1], p[2])

\* a session in either mode, the viewer showing the stream in a widget of any
\* of the sizes, the user not yet pointing anywhere
InitRoundTrip ==
    /\ Constructed
    /\ is_muted = FALSE
    /\ host = FullHost
    /\ monitor_dims \in Screens
    /\ wrk \in {NewWorker(TRUE) @@ [size |-> s, pointed |-> <<>>] :
                    s \in WidgetSizes}

SpecRoundTrip == InitRoundTrip /\ [][NextRoundTrip]_vars

\* ---------------------------------------------------------------------------
\* The Legacy frame protocol: the host's sendall of a 4-byte big-endian length
\* and of the image (stream_screen_wayland lines 803-804, stream_screen_x11
\* lines 829-830) and the viewer's _handle_legacy_stream and _recv_all
\* (client lines 188-196, 214-224).
\*
\* host.images is the sequence of encoded images the captures of the session
\* produce; conn[WorkerConn].wire is every byte the host has written to the
\* video connection, of which the viewer has received the first wrk.got.
\* ---------------------------------------------------------------------------

\* images sent in one session, and bytes of one encoded image
MaxFrames == 2
MaxImage == 2

\* the bytes an encoded image is made of (some equal to a byte of a length)
ImageBytes == {0, MaxImage}

\* the encoded images: never empty
Images == UNION {[1..n -> ImageBytes] : n \in 1..MaxImage}

\* struct.pack('>I', n)
Pack(n) ==
    <<(n \div 16777216) % 256, (n \div 65536) % 256, (n \div 256) % 256,
      n % 256>>

\* struct.unpack('>I', b)[0]
Unpack(b) == ((b[1] * 256 + b[2]) * 256 + b[3]) * 256 + b[4]

\* what the two sendall of one frame write
Frame(img) == Pack(Len(img)) \o img

\* what the frames of a sequence of images write
RECURSIVE FrameStream(_)
FrameStream(imgs) ==
    IF imgs = <<>> THEN <<>> ELSE Frame(Head(imgs)) \o FrameStream(Tail(imgs))

\* the number of frames the host has sent
FramesSent ==
    CHOOSE k \in 0..Len(host.images) :
        FrameStream(SubSeq(host.images, 1, k)) = conn[WorkerConn].wire

\* the next capture is encoded and sent (lines 823-830)
FrameSend ==
    /\ FramesSent < Len(host.images)
    /\ conn' = [conn EXCEPT ![WorkerConn].wire =
                    @ \o Frame(host.images[FramesSent + 1])]
    /\ UNCHANGED <<encoder_mode, is_muted, is_running, server_socket,
                   audio_socket, control_socket_listener, client_conn,
                   audio_client_conn, control_client_conn, media_process,
                   media_thread, stop_stream, stop_heartbeat, stop_control,
                   lock, nconn, lclosed, thr, proc, rst, nrst, hb, srv, gui,
                   stp, stopped_emits, startup_failed_emits, host, aud, aconn,
                   wrk, cch, hcc, monitor_dims, mouse, keyboard, config_file,
                   ctl, audio_sent, jpeg_quality, client_worker,
                   screen_capture_rate, command>>

\* the viewer after _recv_all has returned the n bytes in data: the length is
\* unpacked (line 192), or the image is handed to the window (lines 195-196);
\* an empty image ends the stream (line 194)
Received(w, data) ==
    IF w.want = "size"
    THEN [w EXCEPT !.want = "image", !.n = Unpack(data), !.data = <<>>]
    ELSE IF data = <<>>
    THEN [w EXCEPT !.pc = "w_done", !.data = <<>>]
    ELSE [w EXCEPT !.want = "size", !.n = 4, !.data = <<>>,
                   !.frames = Append(@, data)]

\* a variant of the viewer: the image is whatever the first recv returns
RecvOnce(k) ==
    /\ wrk.pc = "w_stream"
    /\ k <= wrk.n - Len(wrk.data)
    /\ wrk.got + k <= Len(conn[WorkerConn].wire)
    /\ LET data == wrk.data \o SubSeq(conn[WorkerConn].wire, wrk.got + 1,
                                      wrk.got + k)
           w == [wrk EXCEPT !.got = @ + k, !.reads = @ + 1, !.data = data]
       IN  wrk' = IF Len(data) = wrk.n \/ wrk.want = "image"
                  THEN Received(w, data) ELSE w
    /\ UNCHANGED <<encoder_mode, is_muted, is_running, server_socket,
                   audio_socket, control_socket_listener, client_conn,
                   audio_client_conn, control_client_conn, media_process,
                   media_thread, stop_stream, stop_heartbeat, stop_control,
                   lock, conn, nconn, lclosed, thr, proc, rst, nrst, hb, srv,
                   gui, stp, stopped_emits, startup_failed_emits, host, aud,
                   aconn, cch, hcc, monitor_dims, mouse, keyboard, config_file,
                   ctl, audio_sent, jpeg_quality, client_worker,
                   screen_capture_rate, command>>

\* packet = sock.recv(n - len(data)) returns k bytes (line 219), and what
\* follows once len(data) = n (lines 190-196)
Recv(k) ==
    /\ wrk.pc = "w_stream"
    /\ k <= wrk.n - Len(wrk.data)
    /\ wrk.got + k <= Len(conn[WorkerConn].wire)
    /\ LET data == wrk.data \o SubSeq(conn[WorkerConn].wire, wrk.got + 1,
                                      wrk.got + k)
           w == [wrk EXCEPT !.got = @ + k, !.reads = @ + 1, !.data = data]
       IN  wrk' = IF Len(data) = wrk.n THEN Received(w, data) ELSE w
    /\ UNCHANGED <<encoder_mode, is_muted, is_running, server_socket,
                   audio_socket, control_socket_listener, client_conn,
                   audio_client_conn, control_client_conn, media_process,
                   media_thread, stop_stream, stop_heartbeat, stop_control,
                   lock, conn, nconn, lclosed, thr, proc, rst, nrst, hb, srv,
                   gui, stp, stopped_emits, startup_failed_emits, host, aud,
                   aconn, cch, hcc, monitor_dims, mouse, keyboard, config_file,
                   ctl, audio_sent, jpeg_quality, client_worker,
                   screen_capture_rate, command>>

NextFrames == FrameSend \/ \E k \in 1..MaxImage + 4 : Recv(k)

\* a Legacy session about to stream: the viewer enters _handle_legacy_stream
\* and asks for the first length
InitFrames ==
    /\ Constructed
    /\ encoder_mode = "Legacy"
    /\ is_muted = FALSE
    /\ monitor_dims = Fallback
    /\ host \in {FullHost @@ [images |-> imgs] :
                    imgs \in UNION {[1..f -> Images] : f \in 1..MaxFrames}}
    /\ wrk = [NewWorker(TRUE) EXCEPT !.pc = "w_stream", !.mode = "L"]
             @@ [want |-> "size", n |-> 4, data |-> <<>>, got |-> 0,
                 reads |-> 0, frames |-> <<>>]

SpecFrames == InitFrames /\ [][NextFrames]_vars


(***************************************************************************)
(* _save_settings (lines 277-295) at the end of stop_server: the           *)
(* configuration file is opened for writing and written, and either step   *)
(* may fail.                                                               *)
(***************************************************************************)

\* what open(CONFIG_FILE, 'w') and config.write(f) do: both succeed, open
\* raises (the file is left as it was), or write raises after open has
\* truncated the file
SaveOutcomes == {"written", "open_fails", "write_fails"}

\* lines 874-882 with _save_settings: IOError is OSError, which open and
\* write raise; line 295 reports it and stop_server goes on to line 881
StopSave(i, out) ==
    /\ stop_server_end(i)
    /\ config_file' =
         [content |-> IF out = "written" THEN "new"
                      ELSE IF out = "write_fails" THEN "truncated"
                      ELSE config_file.content,
          errors |-> IF out = "written" THEN config_file.errors
                     ELSE Bump(config_file.errors)]

StopServerSave(i) ==
    \/ StopBegin(i) \/ StopProcCheck(i) \/ StopTerm(i) \/ StopProcNull(i)
    \/ StopCloseConn(i) \/ StopNullConn(i) \/ StopCloseListeners(i)
    \/ /\ \E out \in SaveOutcomes : StopSave(i, out)
       /\ UNCHANGED <<encoder_mode, is_muted, is_running, client_conn,
                      audio_client_conn, control_client_conn, media_process,
                      media_thread, stop_stream, stop_heartbeat, stop_control,
                      lock, conn, nconn, lclosed, thr, proc, rst, nrst, hb,
                      srv, gui, startup_failed_emits, host, aud, aconn, wrk,
                      cch, hcc, monitor_dims, mouse, keyboard, ctl, audio_sent,
                      jpeg_quality, client_worker, screen_capture_rate,
                      command>>

\* Teardown with the configuration file: the server thread and its sessions,
\* and the GUI thread stopping the host at any moment; each stop_server that
\* reaches line 880 saves the settings, and the save may fail.
NextSave ==
    \/ SrvAcceptConn(MaxSessions)
    \/ ServerSteps
    \/ SrvAudioTimeout
    \/ StopServerSave("srv")
    \/ SrvAcceptError
    \/ SrvAudioError
    \/ GuiStop
    \/ StopServerSave("gui")
    \/ \E t \in Threads : Media(t)
    \/ Heartbeat
    \/ \E c \in Conns : ViewerDisconnect(c)

SpecSave == Init /\ [][NextSave]_vars


(***************************************************************************)
(* self.monitor_dims: resolved in __init__ (lines 168-186) and read by     *)
(* process_control_event (lines 546-582), stream_ffmpeg (lines 667-668)    *)
(* and stream_screen_x11 (line 824).                                       *)
(***************************************************************************)

\* what the capture provider gives in __init__: MSS_SUPPORT, whether
\* mss.mss() raises ScreenShotError, and sct.monitors
MssOutcomes ==
    {[mss |-> FALSE, raises |-> FALSE, monitors |-> <<>>],
     [mss |-> TRUE, raises |-> TRUE, monitors |-> <<>>],
     [mss |-> TRUE, raises |-> FALSE, monitors |-> <<>>]}
        \cup {[mss |-> TRUE, raises |-> FALSE, monitors |-> <<m, Fallback>>] :
                m \in {[left |-> MaxOrigin, top |-> 0, width |-> MaxDim,
                        height |-> MaxDim - 1]}}

\* the provider has given no monitor
Unresolved(o) == ~o.mss \/ o.raises \/ Len(o.monitors) = 0

\* a variant of lines 174-186 that falls back to the origin with no size
ResolvedOrEmpty(o) ==
    IF Unresolved(o) THEN [left |-> 0, top |-> 0, width |-> 0, height |-> 0]
    ELSE o.monitors[1]

\* lines 168-186: sct.monitors[0] when there is one, else the fallback
ResolveMonitorDims(o) ==
    IF Unresolved(o) THEN Fallback ELSE o.monitors[1]

\* An FFmpeg host whose geometry has been resolved in any of these ways:
\* sessions, one restart by toggle_mute, pipelines, the first control event
\* of a channel during a session, session cleanup and stop_server.
NextGeometry ==
    \/ SrvAcceptConn(LiveSessions)
    \/ ServerSteps
    \/ StopNoEncoder
    \/ nrst = 0 /\ ToggleMute
    \/ Restart(1)
    \/ \E t \in Threads : Ffmpeg(t)
    \/ Heartbeat
    \/ \E c \in Conns : ViewerDisconnect(c)
    \/ client_conn # None /\ Dispatch(MouseMoveData(50, 50, 100, 2000, 1000))

InitGeometry ==
    /\ Constructed
    /\ encoder_mode = "FFmpeg"
    /\ is_muted = FALSE
    /\ wrk = NewWorker(TRUE)
    /\ \E o \in MssOutcomes :
          /\ host = FullHost @@ [provider |-> o]
          /\ monitor_dims = ResolveMonitorDims(o)

SpecGeometry == InitGeometry /\ [][NextGeometry]_vars


(***************************************************************************)
(* Several control connections, one after another: _control_listener_loop  *)
(* (lines 485-505) accepts one whenever control_client_conn is None, and   *)
(* each has its own _handle_control_client thread (lines 508-536). All of  *)
(* them share _stop_control_event.                                         *)
(***************************************************************************)

ControlConns == 1..MaxControl

\* a handler thread that has not reached its finally
Serviced(k) == ctl[k].pc \in {"h_loop", "h_recv"}

\* a client (the viewer, or anything else) connects to the control port; the
\* listener's backlog takes the connection
CtlConnect(k) ==
    /\ ControlListening
    /\ ctl[k].pc = "none"
    /\ \A j \in 1..(k - 1) : ctl[j].pc \notin {"none", "pending"}
    /\ ctl' = [ctl EXCEPT ![k].pc = "pending"]
    /\ UNCHANGED <<encoder_mode, is_muted, is_running, server_socket,
                   audio_socket, control_socket_listener, client_conn,
                   audio_client_conn, control_client_conn, media_process,
                   media_thread, stop_stream, stop_heartbeat, stop_control,
                   lock, conn, nconn, lclosed, thr, proc, rst, nrst, hb, srv,
                   gui, stp, stopped_emits, startup_failed_emits, host, aud,
                   aconn, wrk, cch, hcc, monitor_dims, mouse, keyboard,
                   config_file, audio_sent, jpeg_quality, client_worker,
                   screen_capture_rate, command>>

\* the client writes the line of an event
CtlSend(k) ==
    /\ ctl[k].pc # "none"
    /\ ctl[k].closes = 0
    /\ ctl[k].sent < MaxLines
    /\ ctl' = [ctl EXCEPT ![k].net = @ + 1, ![k].sent = @ + 1]
    /\ UNCHANGED <<encoder_mode, is_muted, is_running, server_socket,
                   audio_socket, control_socket_listener, client_conn,
                   audio_client_conn, control_client_conn, media_process,
                   media_thread, stop_stream, stop_heartbeat, stop_control,
                   lock, conn, nconn, lclosed, thr, proc, rst, nrst, hb, srv,
                   gui, stp, stopped_emits, startup_failed_emits, host, aud,
                   aconn, wrk, cch, hcc, monitor_dims, mouse, keyboard,
                   config_file, audio_sent, jpeg_quality, client_worker,
                   screen_capture_rate, command>>

\* lines 488-495: the listener accepts connection k, stores it, clears the
\* stop event and starts the handler. Whether a viewer is connected
\* (client_conn) is not looked at; it is kept for observation.
ListenerAccept(k) ==
    /\ is_running
    /\ control_client_conn = None
    /\ ControlListening
    /\ ctl[k].pc = "pending"
    /\ control_client_conn' = k
    /\ stop_control' = FALSE
    /\ ctl' = [ctl EXCEPT ![k].pc = "h_loop", ![k].session = client_conn]
    /\ UNCHANGED <<encoder_mode, is_muted, is_running, server_socket,
                   audio_socket, control_socket_listener, client_conn,
                   audio_client_conn, media_process, media_thread, stop_stream,
                   stop_heartbeat, lock, conn, nconn, lclosed, thr, proc, rst,
                   nrst, hb, srv, gui, stp, stopped_emits,
                   startup_failed_emits, host, aud, aconn, wrk, cch, hcc,
                   monitor_dims, mouse, keyboard, config_file, audio_sent,
                   jpeg_quality, client_worker, screen_capture_rate, command>>

\* lines 532-536: the finally of handler k: the field is nulled if it holds
\* this connection, the stop event is set, the connection is closed
HandlerEnds(k) ==
    /\ control_client_conn' = IF control_client_conn = k THEN None
                              ELSE control_client_conn
    /\ stop_control' = TRUE
    /\ ctl' = [ctl EXCEPT ![k].pc = "done", ![k].closes = Bump(@)]

\* line 512: while self.is_running and not self._stop_control_event.is_set()
HandlerLoop(k) ==
    /\ ctl[k].pc = "h_loop"
    /\ IF is_running /\ ~stop_control
       THEN /\ ctl' = [ctl EXCEPT ![k].pc = "h_recv"]
            /\ UNCHANGED <<control_client_conn, stop_control>>
       ELSE HandlerEnds(k)
    /\ UNCHANGED <<encoder_mode, is_muted, is_running, server_socket,
                   audio_socket, control_socket_listener, client_conn,
                   audio_client_conn, media_process, media_thread, stop_stream,
                   stop_heartbeat, lock, conn, nconn, lclosed, thr, proc, rst,
                   nrst, hb, srv, gui, stp, stopped_emits,
                   startup_failed_emits, host, aud, aconn, wrk, cch, hcc,
                   monitor_dims, mouse, keyboard, config_file, audio_sent,
                   jpeg_quality, client_worker, screen_capture_rate, command>>

\* lines 513-526: recv on a connection the host has shut down and closed
\* returns nothing or raises, and the finally follows; otherwise recv gives
\* the line of an event, which is parsed and dispatched
HandlerRecv(k) ==
    /\ ctl[k].pc = "h_recv"
    /\ IF ctl[k].closes > 0
       THEN HandlerEnds(k)
       ELSE /\ ctl[k].net > 0
            /\ ctl' = [ctl EXCEPT ![k].pc = "h_loop", ![k].net = @ - 1,
                                  ![k].dispatched = @ + 1]
            /\ UNCHANGED <<control_client_conn, stop_control>>
    /\ UNCHANGED <<encoder_mode, is_muted, is_running, server_socket,
                   audio_socket, control_socket_listener, client_conn,
                   audio_client_conn, media_process, media_thread, stop_stream,
                   stop_heartbeat, lock, conn, nconn, lclosed, thr, proc, rst,
                   nrst, hb, srv, gui, stp, stopped_emits,
                   startup_failed_emits, host, aud, aconn, wrk, cch, hcc,
                   monitor_dims, mouse, keyboard, config_file, audio_sent,
                   jpeg_quality, client_worker, screen_capture_rate, command>>

\* lines 463-477: the cleanup of a pass of run_server's loop shuts down and
\* closes the control connection the field holds
SrvClConnNullCtl ==
    /\ cleanup_connections
    /\ ctl' = IF control_client_conn # None
              THEN [ctl EXCEPT ![control_client_conn].closes = Bump(@)]
              ELSE ctl
    /\ UNCHANGED <<encoder_mode, is_muted, is_running, server_socket,
                   audio_socket, control_socket_listener, media_process,
                   media_thread, stop_stream, stop_heartbeat, stop_control,
                   lock, conn, nconn, lclosed, thr, proc, rst, nrst, hb, gui,
                   stp, stopped_emits, startup_failed_emits, host, aud, wrk,
                   hcc, monitor_dims, mouse, keyboard, config_file, audio_sent,
                   jpeg_quality, client_worker, screen_capture_rate, command>>

\* An FFmpeg host that is not stopped: the server thread with its sessions
\* and the cleanup of every pass of its loop, the pipelines, and the control
\* listener with the handlers of the connections made to the control port.
NextHandlers ==
    \/ SrvStart \/ SrvAcceptConn(LiveSessions) \/ SrvAcceptTimeout
    \/ SrvSendMode \/ SrvClearHeartbeat \/ SrvClearStream \/ SrvStartThread
    \/ SrvJoinHeartbeat \/ SrvClEvents \/ SrvClTerm \/ SrvClProcNull
    \/ SrvClConnClose \/ SrvClConnNullCtl
    \/ \E t \in Threads : Ffmpeg(t)
    \/ Heartbeat
    \/ \E c \in Conns : ViewerDisconnect(c)
    \/ \E k \in ControlConns :
          \/ CtlConnect(k) \/ CtlSend(k) \/ ListenerAccept(k)
          \/ HandlerLoop(k) \/ HandlerRecv(k)

InitHandlers ==
    /\ Constructed
    /\ encoder_mode = "FFmpeg"
    /\ is_muted = FALSE
    /\ host = FullHost
    /\ wrk = NewWorker(TRUE)
    /\ monitor_dims = Fallback

SpecHandlers == InitHandlers /\ [][NextHandlers]_vars


(***************************************************************************)
(* The muted setting in a Legacy session: stream_audio tests it for every  *)
(* chunk (line 755), and toggle_mute (lines 1132-1141) restarts nothing in *)
(* Legacy mode.                                                            *)
(***************************************************************************)

\* what is kept of the history of the audio connection
Logged(entry) ==
    IF Len(audio_sent) < MaxLog THEN Append(audio_sent, entry) ELSE audio_sent

\* a variant of line 755 without the test of is_muted
AudioWrittenAlways ==
    audio_client_conn # None /\ aconn.closes = 0 /\ aconn.peer = "open"

\* lines 755-757: the chunk read at line 751 is written to the audio
\* connection
AudioWritten ==
    ~is_muted /\ audio_client_conn # None /\ aconn.closes = 0
        /\ aconn.peer = "open"

\* lines 755-761 with the history of the connection
ASendLogged ==
    /\ stream_audio_chunk
    /\ audio_sent' = IF AudioWritten THEN Logged("chunk") ELSE audio_sent
    /\ UNCHANGED <<encoder_mode, is_muted, is_running, server_socket,
                   audio_socket, control_socket_listener, client_conn,
                   audio_client_conn, control_client_conn, media_process,
                   media_thread, stop_stream, stop_control, lock, conn, nconn,
                   lclosed, thr, proc, rst, nrst, hb, srv, gui, stp,
                   stopped_emits, startup_failed_emits, host, aconn, wrk, cch,
                   hcc, monitor_dims, mouse, keyboard, config_file, ctl,
                   jpeg_quality, client_worker, screen_capture_rate, command>>

\* lines 1132-1141 with the history of the connection
ToggleMuteLogged ==
    /\ Len(audio_sent) < MaxLog
    /\ toggle_mute
    /\ audio_sent' = Logged(IF is_muted THEN "unmute" ELSE "mute")
    /\ UNCHANGED <<encoder_mode, is_running, server_socket, audio_socket,
                   control_socket_listener, client_conn, audio_client_conn,
                   control_client_conn, media_process, media_thread,
                   stop_stream, stop_heartbeat, stop_control, lock, conn,
                   nconn, lclosed, thr, proc, hb, srv, gui, stp, stopped_emits,
                   startup_failed_emits, host, aud, aconn, wrk, cch, hcc,
                   monitor_dims, mouse, keyboard, config_file, ctl,
                   jpeg_quality, client_worker, screen_capture_rate, command>>

\* A Legacy host that provides everything, serving one PyViewer client with
\* video and audio, while the user of the host ticks and unticks the mute
\* box. No encoder process exists in Legacy mode.
NextMute ==
    \/ SrvStart \/ SrvAcceptTimeout \/ SrvSendMode \/ SrvClearHeartbeat
    \/ SrvClearStream \/ SrvStartThread \/ SrvJoinHeartbeat \/ SrvClEvents
    \/ SrvClTerm \/ SrvClConnClose \/ SrvClConnNull \/ SrvFinally
    \/ StopNoEncoder
    \/ HostAccept
    \/ SrvAudioAccept
    \/ SrvAudioTimeout
    \/ \E t \in Threads : Screen(t) \/ LCaptureError(t)
    \/ AEntry \/ ALoop \/ ASendLogged
    \/ ParecExit
    \/ Heartbeat
    \/ Worker
    \/ WUserDisconnect
    \/ ToggleMuteLogged

InitMute ==
    /\ Constructed
    /\ encoder_mode = "Legacy"
    /\ is_muted = FALSE
    /\ host = FullHost
    /\ wrk = NewWorker(TRUE)
    /\ monitor_dims = Fallback

SpecMute == InitMute /\ [][NextMute]_vars

\* ---------------------------------------------------------------------------
\* The start of a pipeline while the settings change: stream_ffmpeg reads
\* screen_capture_rate, ffmpeg_encoder and is_muted in three statements (lines
\* 653-655), each property taking settings_lock for itself (lines 235-261).
\* Nothing assigns ffmpeg_encoder after _load_settings, so its read is part of
\* the step that reads is_muted.
\* ---------------------------------------------------------------------------

\* the rates the slider is moved to
Rates == {30, 60}

\* the value of StreamConfig (rate, muted) is added to what the threads that
\* are between line 653 and line 655 have seen
Seen(rate, muted) ==
    [t \in Threads |->
        IF command[t].read = 1
        THEN [command[t] EXCEPT !.seen = @ \cup {<<rate, muted>>}]
        ELSE command[t]]

\* ServerWindow.update_rate (lines 1120-1123): the slider's new value
UpdateRate(value) ==
    /\ gui = "idle"
    /\ value # screen_capture_rate
    /\ screen_capture_rate' = value
    /\ command' = Seen(value, is_muted)
    /\ UNCHANGED <<encoder_mode, is_muted, is_running, server_socket,
                   audio_socket, control_socket_listener, client_conn,
                   audio_client_conn, control_client_conn, media_process,
                   media_thread, stop_stream, stop_heartbeat, stop_control,
                   lock, conn, nconn, lclosed, thr, proc, rst, nrst, hb, srv,
                   gui, stp, stopped_emits, startup_failed_emits, host, aud,
                   aconn, wrk, cch, hcc, monitor_dims, mouse, keyboard,
                   config_file, ctl, audio_sent, jpeg_quality, client_worker>>

\* ServerWindow.toggle_mute (lines 1132-1141)
ToggleMuteSeen ==
    /\ toggle_mute
    /\ command' = Seen(screen_capture_rate, ~is_muted)
    /\ UNCHANGED <<encoder_mode, is_running, server_socket, audio_socket,
                   control_socket_listener, client_conn, audio_client_conn,
                   control_client_conn, media_process, media_thread,
                   stop_stream, stop_heartbeat, stop_control, lock, conn,
                   nconn, lclosed, thr, proc, hb, srv, gui, stp, stopped_emits,
                   startup_failed_emits, host, aud, aconn, wrk, cch, hcc,
                   monitor_dims, mouse, keyboard, config_file, ctl, audio_sent,
                   jpeg_quality, client_worker, screen_capture_rate>>

\* rate = self.screen_capture_rate (line 653)
FReadRate(t) ==
    /\ thr[t].pc = "f_popen"
    /\ host.ffmpeg
    /\ command[t].read = 0
    /\ command' = [command EXCEPT ![t] =
                      [read |-> 1, rate |-> screen_capture_rate,
                       quality |-> 0, is_muted |-> FALSE,
                       seen |-> {<<screen_capture_rate, is_muted>>}]]
    /\ UNCHANGED <<encoder_mode, is_muted, is_running, server_socket,
                   audio_socket, control_socket_listener, client_conn,
                   audio_client_conn, control_client_conn, media_process,
                   media_thread, stop_stream, stop_heartbeat, stop_control,
                   lock, conn, nconn, lclosed, thr, proc, rst, nrst, hb, srv,
                   gui, stp, stopped_emits, startup_failed_emits, host, aud,
                   aconn, wrk, cch, hcc, monitor_dims, mouse, keyboard,
                   config_file, ctl, audio_sent, jpeg_quality, client_worker,
                   screen_capture_rate>>

\* encoder = self.ffmpeg_encoder; is_muted = self.is_muted (lines 654-655)
FReadMuted(t) ==
    /\ thr[t].pc = "f_popen"
    /\ command[t].read = 1
    /\ command' = [command EXCEPT ![t].read = 2, ![t].is_muted = is_muted]
    /\ UNCHANGED <<encoder_mode, is_muted, is_running, server_socket,
                   audio_socket, control_socket_listener, client_conn,
                   audio_client_conn, control_client_conn, media_process,
                   media_thread, stop_stream, stop_heartbeat, stop_control,
                   lock, conn, nconn, lclosed, thr, proc, rst, nrst, hb, srv,
                   gui, stp, stopped_emits, startup_failed_emits, host, aud,
                   aconn, wrk, cch, hcc, monitor_dims, mouse, keyboard,
                   config_file, ctl, audio_sent, jpeg_quality, client_worker,
                   screen_capture_rate>>

\* lines 656-707, with the command built from the locals
FPopenBuilt(t) ==
    /\ command[t].read = 2
    /\ FPopen(t)

NextSnapshot ==
    \/ SrvAcceptConn(LiveSessions)
    \/ ServerSteps
    \/ StopNoEncoder
    \/ \E value \in Rates : UpdateRate(value)
    \/ ToggleMuteSeen
    \/ \E t \in Threads :
          FReadRate(t) \/ FReadMuted(t) \/ FPopenBuilt(t) \/ FLoop(t)
              \/ FSend(t) \/ FFin(t)
    \/ Heartbeat
    \/ \E c \in Conns : ViewerDisconnect(c)

\* an FFmpeg host on a machine that provides everything
InitSnapshot ==
    /\ Constructed
    /\ encoder_mode = "FFmpeg"
    /\ host = FullHost
    /\ wrk = NewWorker(TRUE)
    /\ monitor_dims = Fallback

SpecSnapshot == InitSnapshot /\ [][NextSnapshot]_vars


(***************************************************************************)
(* The capture rate and the JPEG quality: update_quality and update_rate   *)
(* (lines 1114-1129) assign the setting and nothing else; the Legacy loops *)
(* read both at the top of every frame (lines 779, 823), stream_ffmpeg     *)
(* reads the rate once, before it builds its command (line 653).           *)
(***************************************************************************)

\* the qualities the slider is moved to
Qualities == {75, 50}

\* ServerWindow.update_quality (lines 1114-1117)
UpdateQuality(value) ==
    /\ gui = "idle"
    /\ value # jpeg_quality
    /\ jpeg_quality' = value
    /\ UNCHANGED <<encoder_mode, is_muted, is_running, server_socket,
                   audio_socket, control_socket_listener, client_conn,
                   audio_client_conn, control_client_conn, media_process,
                   media_thread, stop_stream, stop_heartbeat, stop_control,
                   lock, conn, nconn, lclosed, thr, proc, rst, nrst, hb, srv,
                   gui, stp, stopped_emits, startup_failed_emits, host, aud,
                   aconn, wrk, cch, hcc, monitor_dims, mouse, keyboard,
                   config_file, ctl, audio_sent, client_worker,
                   screen_capture_rate, command>>

\* a variant of lines 777-779, 821-823 that reads the settings before the
\* loop
FrameSettingsOnce(t) ==
    IF command[t].read = 0
    THEN [command[t] EXCEPT !.read = 1, !.rate = screen_capture_rate,
                            !.quality = jpeg_quality]
    ELSE command[t]

\* rate, quality = self.screen_capture_rate, self.jpeg_quality (lines 779,
\* 823): the locals of the frame that begins
FrameSettings(t) ==
    [command[t] EXCEPT !.read = 1, !.rate = screen_capture_rate,
                       !.quality = jpeg_quality]

\* lines 777-801, 821-828 with the locals of the frame
LFrame(t) ==
    /\ capture_frame(t)
    /\ command' = IF is_running /\ ~stop_stream
                  THEN [command EXCEPT ![t] = FrameSettings(t)]
                  ELSE command
    /\ UNCHANGED <<encoder_mode, is_muted, is_running, server_socket,
                   audio_socket, control_socket_listener, client_conn,
                   audio_client_conn, control_client_conn, media_process,
                   media_thread, stop_stream, stop_heartbeat, stop_control,
                   lock, conn, nconn, lclosed, proc, rst, nrst, hb, srv, gui,
                   stp, stopped_emits, startup_failed_emits, host, aud, aconn,
                   wrk, cch, hcc, monitor_dims, mouse, keyboard, config_file,
                   ctl, audio_sent, jpeg_quality, client_worker,
                   screen_capture_rate>>

\* A host in either mode serving viewers one after another (video only)
\* while the user moves the rate and quality sliders.
NextRate ==
    \/ SrvAcceptConn(MaxSessions)
    \/ ServerSteps
    \/ SrvAudioTimeout
    \/ StopNoEncoder
    \/ \E value \in Rates : UpdateRate(value)
    \/ \E value \in Qualities : UpdateQuality(value)
    \/ \E t \in Threads :
          \/ FReadRate(t) \/ FReadMuted(t) \/ FPopenBuilt(t) \/ FLoop(t)
          \/ FSend(t) \/ FFin(t)
          \/ LEntry(t) \/ LFrame(t) \/ LSend(t)
    \/ Heartbeat
    \/ \E c \in Conns : ViewerDisconnect(c)

InitRate ==
    /\ Constructed
    /\ is_muted = FALSE
    /\ host = FullHost
    /\ wrk = NewWorker(TRUE)
    /\ monitor_dims = Fallback

SpecRate == InitRate /\ [][NextRate]_vars

(***************************************************************************)
(* The Worker of the client statement by statement                         *)
(* (src/pyviewer_client.py). connect_and_run runs on the worker thread;    *)
(* ClientWindow.stop_connection calls Worker.disconnect directly, hence on *)
(* the GUI thread of the client. The host and the network are the          *)
(* outcomes of connect and recv. _play_legacy_audio never calls            *)
(* disconnect() and has no action.                                         *)
(***************************************************************************)

\* the threads of the client that call disconnect()
ViewerThreads == {"gui", "worker"}

\* lines 58-60: the sockets of a Worker
ViewerSockets == {"control_socket", "audio_socket", "control_socket_client"}

\* first bytes a host can send: PyViewer's 'F' and 'L', and any other byte
ModeBytes == {"F", "L", "X"}

\* the worker thread calls disconnect(); every call of connect_and_run's
\* thread is followed by a return from connect_and_run
CallDisconnect(v) == [v EXCEPT !.pc = "disconnect", !.d["worker"] = "test"]

\* thread t returns from disconnect()
Returned(v, t) ==
    IF t = "worker"
    THEN [v EXCEPT !.d[t] = "idle", !.pc = "returned"]
    ELSE [v EXCEPT !.d[t] = "idle"]

\* lines 437-453, 53-63: start_connection creates the Worker and starts its
\* thread, which runs connect_and_run; PYNPUT_SUPPORT is p
VStart(p) ==
    /\ client_worker.pc = "none"
    /\ client_worker' = [client_worker EXCEPT !.pc = "connect", !.pynput = p]
    /\ UNCHANGED <<encoder_mode, is_muted, is_running, server_socket,
                   audio_socket, control_socket_listener, client_conn,
                   audio_client_conn, control_client_conn, media_process,
                   media_thread, stop_stream, stop_heartbeat, stop_control,
                   lock, conn, nconn, lclosed, thr, proc, rst, nrst, hb, srv,
                   gui, stp, stopped_emits, startup_failed_emits, host, aud,
                   aconn, wrk, cch, hcc, monitor_dims, mouse, keyboard,
                   config_file, ctl, audio_sent, jpeg_quality,
                   screen_capture_rate, command>>

\* lines 88-90: the video socket is created and connected; a connect that
\* raises is caught at line 106, which calls disconnect()
VConnect(ok) ==
    /\ client_worker.pc = "connect"
    /\ client_worker' = IF ok
                 THEN [client_worker EXCEPT !.pc = "mode",
                                     !.socks["control_socket"] = "open"]
                 ELSE CallDisconnect(
                          [client_worker EXCEPT !.socks["control_socket"] = "open"])
    /\ UNCHANGED <<encoder_mode, is_muted, is_running, server_socket,
                   audio_socket, control_socket_listener, client_conn,
                   audio_client_conn, control_client_conn, media_process,
                   media_thread, stop_stream, stop_heartbeat, stop_control,
                   lock, conn, nconn, lclosed, thr, proc, rst, nrst, hb, srv,
                   gui, stp, stopped_emits, startup_failed_emits, host, aud,
                   aconn, wrk, cch, hcc, monitor_dims, mouse, keyboard,
                   config_file, ctl, audio_sent, jpeg_quality,
                   screen_capture_rate, command>>

\* lines 92-95, 106-109: recv(1) returns byte b, or nothing when the host
\* closed the connection, or raises when the socket was closed by
\* disconnect() on the GUI thread
VRecvMode(b) ==
    /\ client_worker.pc = "mode"
    /\ client_worker' = IF client_worker.socks["control_socket"] = "open" /\ b # ""
                 THEN [client_worker EXCEPT !.mode = b,
                                     !.pc = IF b = "L" THEN "audio"
                                            ELSE "control"]
                 ELSE CallDisconnect(client_worker)
    /\ UNCHANGED <<encoder_mode, is_muted, is_running, server_socket,
                   audio_socket, control_socket_listener, client_conn,
                   audio_client_conn, control_client_conn, media_process,
                   media_thread, stop_stream, stop_heartbeat, stop_control,
                   lock, conn, nconn, lclosed, thr, proc, rst, nrst, hb, srv,
                   gui, stp, stopped_emits, startup_failed_emits, host, aud,
                   aconn, wrk, cch, hcc, monitor_dims, mouse, keyboard,
                   config_file, ctl, audio_sent, jpeg_quality,
                   screen_capture_rate, command>>

\* lines 97-101, 106-109: in Legacy mode the audio socket is created and
\* connected
VConnectAudio(ok) ==
    /\ client_worker.pc = "audio"
    /\ client_worker' = IF ok
                 THEN [client_worker EXCEPT !.pc = "control",
                                     !.socks["audio_socket"] = "open"]
                 ELSE CallDisconnect(
                          [client_worker EXCEPT !.socks["audio_socket"] = "open"])
    /\ UNCHANGED <<encoder_mode, is_muted, is_running, server_socket,
                   audio_socket, control_socket_listener, client_conn,
                   audio_client_conn, control_client_conn, media_process,
                   media_thread, stop_stream, stop_heartbeat, stop_control,
                   lock, conn, nconn, lclosed, thr, proc, rst, nrst, hb, srv,
                   gui, stp, stopped_emits, startup_failed_emits, host, aud,
                   aconn, wrk, cch, hcc, monitor_dims, mouse, keyboard,
                   config_file, ctl, audio_sent, jpeg_quality,
                   screen_capture_rate, command>>

\* lines 73-77, 111-121: without pynput no control connection is made; with
\* it the control socket is created and connected, and a failure is followed
\* by disconnect() and return
VConnectControl(ok) ==
    /\ client_worker.pc = "control"
    /\ client_worker.pynput \/ ok
    /\ client_worker' =
         IF ~client_worker.pynput THEN [client_worker EXCEPT !.pc = "handle"]
         ELSE IF ok
         THEN [client_worker EXCEPT !.pc = "handle",
                             !.socks["control_socket_client"] = "open"]
         ELSE CallDisconnect(
                  [client_worker EXCEPT !.socks["control_socket_client"] = "open"])
    /\ UNCHANGED <<encoder_mode, is_muted, is_running, server_socket,
                   audio_socket, control_socket_listener, client_conn,
                   audio_client_conn, control_client_conn, media_process,
                   media_thread, stop_stream, stop_heartbeat, stop_control,
                   lock, conn, nconn, lclosed, thr, proc, rst, nrst, hb, srv,
                   gui, stp, stopped_emits, startup_failed_emits, host, aud,
                   aconn, wrk, cch, hcc, monitor_dims, mouse, keyboard,
                   config_file, ctl, audio_sent, jpeg_quality,
                   screen_capture_rate, command>>

\* lines 81-84: the handler of the mode is entered; with any other mode
\* connect_and_run returns
Handler ==
    IF client_worker.mode = "F" THEN [client_worker EXCEPT !.pc = "which"]
    ELSE IF client_worker.mode = "L" THEN [client_worker EXCEPT !.pc = "loop"]
    ELSE [client_worker EXCEPT !.pc = "returned"]

VHandle ==
    /\ client_worker.pc = "handle"
    /\ client_worker' = Handler
    /\ UNCHANGED <<encoder_mode, is_muted, is_running, server_socket,
                   audio_socket, control_socket_listener, client_conn,
                   audio_client_conn, control_client_conn, media_process,
                   media_thread, stop_stream, stop_heartbeat, stop_control,
                   lock, conn, nconn, lclosed, thr, proc, rst, nrst, hb, srv,
                   gui, stp, stopped_emits, startup_failed_emits, host, aud,
                   aconn, wrk, cch, hcc, monitor_dims, mouse, keyboard,
                   config_file, ctl, audio_sent, jpeg_quality,
                   screen_capture_rate, command>>

\* lines 137-140: without ffplay on the viewer, disconnect() and return
VWhich(found) ==
    /\ client_worker.pc = "which"
    /\ client_worker' = IF found THEN [client_worker EXCEPT !.pc = "popen"]
                 ELSE CallDisconnect(client_worker)
    /\ UNCHANGED <<encoder_mode, is_muted, is_running, server_socket,
                   audio_socket, control_socket_listener, client_conn,
                   audio_client_conn, control_client_conn, media_process,
                   media_thread, stop_stream, stop_heartbeat, stop_control,
                   lock, conn, nconn, lclosed, thr, proc, rst, nrst, hb, srv,
                   gui, stp, stopped_emits, startup_failed_emits, host, aud,
                   aconn, wrk, cch, hcc, monitor_dims, mouse, keyboard,
                   config_file, ctl, audio_sent, jpeg_quality,
                   screen_capture_rate, command>>

\* lines 149-161, 177-178: ffplay is started inside the try block; a Popen
\* that raises leaves through the finally
VPopen(ok) ==
    /\ client_worker.pc = "popen"
    /\ client_worker' = IF ok THEN [client_worker EXCEPT !.pc = "loop", !.ffplay = "running"]
                 ELSE CallDisconnect(client_worker)
    /\ UNCHANGED <<encoder_mode, is_muted, is_running, server_socket,
                   audio_socket, control_socket_listener, client_conn,
                   audio_client_conn, control_client_conn, media_process,
                   media_thread, stop_stream, stop_heartbeat, stop_control,
                   lock, conn, nconn, lclosed, thr, proc, rst, nrst, hb, srv,
                   gui, stp, stopped_emits, startup_failed_emits, host, aud,
                   aconn, wrk, cch, hcc, monitor_dims, mouse, keyboard,
                   config_file, ctl, audio_sent, jpeg_quality,
                   screen_capture_rate, command>>

\* outcomes of one pass of a stream handler's loop: a chunk or frame is
\* passed on, the stream ends or the recv raises, or (FFmpeg) the player is
\* found exited or its pipe broken
LoopOutcomes == {"data", "end", "player_exit"}

\* lines 163-178, 189-198: the loop tests stop_event; it is left when the
\* event is set, when the stream ends and when the player has exited; the
\* finally calls disconnect()
VLoop(res) ==
    /\ client_worker.pc = "loop"
    /\ res = "player_exit" => client_worker.ffplay = "running"
    /\ res = "data" => client_worker.reads < MaxReads
    /\ client_worker' =
         IF client_worker.stop_event \/ res = "end" THEN CallDisconnect(client_worker)
         ELSE IF res = "player_exit"
         THEN CallDisconnect([client_worker EXCEPT !.ffplay = "exited"])
         ELSE [client_worker EXCEPT !.reads = @ + 1]
    /\ UNCHANGED <<encoder_mode, is_muted, is_running, server_socket,
                   audio_socket, control_socket_listener, client_conn,
                   audio_client_conn, control_client_conn, media_process,
                   media_thread, stop_stream, stop_heartbeat, stop_control,
                   lock, conn, nconn, lclosed, thr, proc, rst, nrst, hb, srv,
                   gui, stp, stopped_emits, startup_failed_emits, host, aud,
                   aconn, wrk, cch, hcc, monitor_dims, mouse, keyboard,
                   config_file, ctl, audio_sent, jpeg_quality,
                   screen_capture_rate, command>>

\* lines 456-458: stop_connection on the GUI thread (the Disconnect button,
\* closing the window): self.worker exists from start_connection on
VStopConnection ==
    /\ client_worker.pc # "none"
    /\ client_worker.d["gui"] = "idle"
    /\ client_worker.stops < MaxStops
    /\ client_worker' = [client_worker EXCEPT !.d["gui"] = "test", !.stops = @ + 1]
    /\ UNCHANGED <<encoder_mode, is_muted, is_running, server_socket,
                   audio_socket, control_socket_listener, client_conn,
                   audio_client_conn, control_client_conn, media_process,
                   media_thread, stop_stream, stop_heartbeat, stop_control,
                   lock, conn, nconn, lclosed, thr, proc, rst, nrst, hb, srv,
                   gui, stp, stopped_emits, startup_failed_emits, host, aud,
                   aconn, wrk, cch, hcc, monitor_dims, mouse, keyboard,
                   config_file, ctl, audio_sent, jpeg_quality,
                   screen_capture_rate, command>>

\* line 239: if not self.stop_event.is_set()
Test(t) ==
    IF client_worker.stop_event THEN Returned(client_worker, t)
    ELSE [client_worker EXCEPT !.d[t] = "set"]

DTest(t) ==
    /\ client_worker.d[t] = "test"
    /\ client_worker' = Test(t)
    /\ UNCHANGED <<encoder_mode, is_muted, is_running, server_socket,
                   audio_socket, control_socket_listener, client_conn,
                   audio_client_conn, control_client_conn, media_process,
                   media_thread, stop_stream, stop_heartbeat, stop_control,
                   lock, conn, nconn, lclosed, thr, proc, rst, nrst, hb, srv,
                   gui, stp, stopped_emits, startup_failed_emits, host, aud,
                   aconn, wrk, cch, hcc, monitor_dims, mouse, keyboard,
                   config_file, ctl, audio_sent, jpeg_quality,
                   screen_capture_rate, command>>

\* lines 240-241: stop_event and _stop_control_send_event are set
DSet(t) ==
    /\ client_worker.d[t] = "set"
    /\ client_worker' = [client_worker EXCEPT !.d[t] = "emit", !.stop_event = TRUE]
    /\ UNCHANGED <<encoder_mode, is_muted, is_running, server_socket,
                   audio_socket, control_socket_listener, client_conn,
                   audio_client_conn, control_client_conn, media_process,
                   media_thread, stop_stream, stop_heartbeat, stop_control,
                   lock, conn, nconn, lclosed, thr, proc, rst, nrst, hb, srv,
                   gui, stp, stopped_emits, startup_failed_emits, host, aud,
                   aconn, wrk, cch, hcc, monitor_dims, mouse, keyboard,
                   config_file, ctl, audio_sent, jpeg_quality,
                   screen_capture_rate, command>>

\* line 242: disconnected_signal.emit()
DEmit(t) ==
    /\ client_worker.d[t] = "emit"
    /\ client_worker' = [client_worker EXCEPT !.d[t] = "poll", !.emits = @ + 1]
    /\ UNCHANGED <<encoder_mode, is_muted, is_running, server_socket,
                   audio_socket, control_socket_listener, client_conn,
                   audio_client_conn, control_client_conn, media_process,
                   media_thread, stop_stream, stop_heartbeat, stop_control,
                   lock, conn, nconn, lclosed, thr, proc, rst, nrst, hb, srv,
                   gui, stp, stopped_emits, startup_failed_emits, host, aud,
                   aconn, wrk, cch, hcc, monitor_dims, mouse, keyboard,
                   config_file, ctl, audio_sent, jpeg_quality,
                   screen_capture_rate, command>>

\* line 243: if self.ffplay_process and self.ffplay_process.poll() is None
DPoll(t) ==
    /\ client_worker.d[t] = "poll"
    /\ client_worker' = [client_worker EXCEPT !.d[t] = IF client_worker.ffplay = "running"
                                         THEN "terminate" ELSE "close"]
    /\ UNCHANGED <<encoder_mode, is_muted, is_running, server_socket,
                   audio_socket, control_socket_listener, client_conn,
                   audio_client_conn, control_client_conn, media_process,
                   media_thread, stop_stream, stop_heartbeat, stop_control,
                   lock, conn, nconn, lclosed, thr, proc, rst, nrst, hb, srv,
                   gui, stp, stopped_emits, startup_failed_emits, host, aud,
                   aconn, wrk, cch, hcc, monitor_dims, mouse, keyboard,
                   config_file, ctl, audio_sent, jpeg_quality,
                   screen_capture_rate, command>>

\* lines 244-248: terminate(), wait, kill
DTerminate(t) ==
    /\ client_worker.d[t] = "terminate"
    /\ client_worker' = [client_worker EXCEPT !.d[t] = "close", !.ffplay = "exited",
                                !.terminates = @ + 1]
    /\ UNCHANGED <<encoder_mode, is_muted, is_running, server_socket,
                   audio_socket, control_socket_listener, client_conn,
                   audio_client_conn, control_client_conn, media_process,
                   media_thread, stop_stream, stop_heartbeat, stop_control,
                   lock, conn, nconn, lclosed, thr, proc, rst, nrst, hb, srv,
                   gui, stp, stopped_emits, startup_failed_emits, host, aud,
                   aconn, wrk, cch, hcc, monitor_dims, mouse, keyboard,
                   config_file, ctl, audio_sent, jpeg_quality,
                   screen_capture_rate, command>>

\* lines 250-255: close() is called on every socket that is not None
DClose(t) ==
    /\ client_worker.d[t] = "close"
    /\ client_worker' = Returned(
           [client_worker EXCEPT
              !.socks = [s \in ViewerSockets |->
                           IF client_worker.socks[s] = "none" THEN "none"
                           ELSE "closed"],
              !.closes = [s \in ViewerSockets |->
                            IF client_worker.socks[s] = "none" THEN client_worker.closes[s]
                            ELSE client_worker.closes[s] + 1]], t)
    /\ UNCHANGED <<encoder_mode, is_muted, is_running, server_socket,
                   audio_socket, control_socket_listener, client_conn,
                   audio_client_conn, control_client_conn, media_process,
                   media_thread, stop_stream, stop_heartbeat, stop_control,
                   lock, conn, nconn, lclosed, thr, proc, rst, nrst, hb, srv,
                   gui, stp, stopped_emits, startup_failed_emits, host, aud,
                   aconn, wrk, cch, hcc, monitor_dims, mouse, keyboard,
                   config_file, ctl, audio_sent, jpeg_quality,
                   screen_capture_rate, command>>

disconnect(t) ==
    \/ DTest(t) \/ DSet(t) \/ DEmit(t) \/ DPoll(t) \/ DTerminate(t)
    \/ DClose(t)

connect_and_run ==
    \/ \E ok \in BOOLEAN : VConnect(ok) \/ VConnectAudio(ok)
                           \/ VConnectControl(ok) \/ VWhich(ok) \/ VPopen(ok)
    \/ \E b \in ModeBytes \cup {""} : VRecvMode(b)
    \/ VHandle
    \/ \E res \in LoopOutcomes : VLoop(res)

NextViewer ==
    \/ \E p \in BOOLEAN : VStart(p)
    \/ connect_and_run
    \/ VStopConnection
    \/ \E t \in ViewerThreads : disconnect(t)

\* the client before start_connection; the host takes no step
InitViewer ==
    /\ Constructed
    /\ encoder_mode = "FFmpeg"
    /\ is_muted = FALSE
    /\ host = FullHost
    /\ wrk = NewWorker(TRUE)
    /\ monitor_dims = Fallback

SpecViewer == InitViewer /\ [][NextViewer]_vars

(***************************************************************************)
(* Properties.                                                             *)
(***************************************************************************)

\* the video connection of the session in progress
Current(c) == c # None /\ client_conn = c

\* the per-session cleanup or stop_server has closed the connection and the
\* field no longer refers to it
TornDown(c) == c # None /\ conn[c].closes > 0 /\ client_conn # c

\* a session negotiated as FFmpeg is in progress: the mode byte 'F' was sent and
\* the server thread waits for the heartbeat of the session
ActiveFFmpegSession ==
    /\ srv.pc = "s_hbjoin"
    /\ srv.mode_byte = "F"
    /\ client_conn # None

\* a step of some thread of the host (neither the user nor a viewer acts)
HostStep ==
    \/ Server(LiveSessions)
    \/ \E r \in Restarts : Restart(r)
    \/ \E t \in Threads : Media(t)
    \/ Heartbeat

\* C1: on every accepted video connection the first byte written is the mode
\* byte 'F' or 'L': no pipeline thread writes payload before it.
C1_ModeByteFirst ==
    \A c \in Conns : conn[c].wire # <<>> => Head(conn[c].wire) \in {"F", "L"}

\* C2: the pipeline run_server starts for a session matches the mode byte it
\* sent: stream_ffmpeg iff 'F', stream_screen iff 'L'.
C2_PipelineMatchesModeByte ==
    \A c \in Conns :
        (nconn = c /\ thr[SessionThread(c)].pc # "none")
            => thr[SessionThread(c)].kind = srv.mode_byte

\* C3: stop_server invoked from the GUI thread and from the server thread at
\* once: no invocation raises, no socket is closed more than once and
\* server_stopped_signal is emitted at most once.
C3_StopIdempotent ==
    /\ \A i \in Callers : stp[i] # "raised"
    /\ \A c \in Conns : conn[c].closes <= 1
    /\ \A s \in DOMAIN lclosed : lclosed[s] <= 1
    /\ stopped_emits <= 1

\* C4: at most one session at a time: the host holds at most one accepted video
\* connection it has not closed, and whenever run_server is about to call accept
\* the heartbeat of the previous session has ended and client_conn is None.
C4_OneSession ==
    /\ Cardinality({c \in Conns : c <= nconn /\ conn[c].closes = 0}) <= 1
    /\ srv.pc = "s_accept" => (client_conn = None /\ hb # "run")

\* C4 witness: a second viewer is being served after the first session ended.
C4_Witness ==
    /\ nconn > 1
    /\ Current(nconn)
    /\ srv.pc = "s_hbjoin"
    /\ hb = "run"
    /\ conn[1].closes > 0

\* C5: at every accept of a video connection the previous session has left
\* nothing behind: the connection fields and media_process are None, the earlier
\* connections are closed, no media thread is alive and no encoder runs.
C5_CleanSlateAtAccept ==
    [][nconn' > nconn =>
         /\ client_conn = None
         /\ audio_client_conn = None
         /\ control_client_conn = None
         /\ media_process = None
         /\ \A c \in Conns : c <= nconn => conn[c].closes > 0
         /\ \A t \in Threads : ~IsAlive(t) /\ proc[t] # "alive"]_vars

\* C6: while an FFmpeg session is active every change of the muted setting and
\* of the encoder mode requests a restart of the pipeline.
C6_SettingChangeRestarts ==
    [][(ActiveFFmpegSession /\ settings' # settings) => nrst' > nrst]_vars

\* C7: no step of a restart closes, reassigns or nulls the video connection or
\* a listener socket.
C7_RestartKeepsSockets ==
    [][(rst' # rst /\ nrst' = nrst) => UNCHANGED sockets]_vars

\* C7 witness: a restart has run to its end on the connection of the session
\* in progress, which is still open.
C7_Witness ==
    \E r \in Restarts :
        /\ rst[r].pc = "done"
        /\ Current(rst[r].sess)
        /\ conn[rst[r].sess].closes = 0
        /\ IsAlive(RestartThread(r))

\* C8: a restart never starts a pipeline for a session that has been torn down.
C8_NoStartAfterTeardown ==
    [][\A r \in Restarts :
         (rst[r].pc = "r_start" /\ rst'[r].pc = "done")
             => ~TornDown(rst[r].sess)]_vars

\* C9: the stop-old and start-new steps of one restart request never interleave
\* with those of another: at most one request is between taking and releasing
\* stream_management_lock.
C9_RestartsExclusive ==
    Cardinality({r \in Restarts : rst[r].pc \in {"r_kill", "r_start"}}) <= 1

\* C9 witness: one request is inside the lock while another waits for it.
C9_Witness ==
    \E r1, r2 \in Restarts :
        /\ rst[r1].pc \in {"r_kill", "r_start"}
        /\ rst[r2].pc = "r_lock"
        /\ ~RestartRefused

\* C10: after a write failure in a pipeline loop on the connection of a session
\* the teardown of that session follows: while the connection is not yet closed
\* some thread of the host still has a step to take.
C10_FailureLeadsToTeardown ==
    \A c \in Conns :
        (conn[c].failed /\ conn[c].closes = 0) => ENABLED HostStep

\* a step of a thread of the host that serves the PyViewer client: nothing
\* fails, nothing arrives and the Worker does not act
HostThreadStep ==
    \/ ServerSteps
    \/ SrvAudioTimeout
    \/ StopNoEncoder
    \/ \E t \in Threads : Media(t)
    \/ Audio
    \/ Heartbeat

\* the pipeline thread of the session in progress has ended while run_server
\* waits for the heartbeat and the viewer is still connected
PipelineEnded ==
    /\ srv.pc = "s_hbjoin"
    /\ thr[SessionThread(nconn)].pc = "done"
    /\ conn[nconn].peer = "open"

\* C11: when the encoder or capture process exits, or its executable is
\* missing, the pipeline loop ends and the teardown of the session is triggered
\* through the heartbeat stop event without the viewer disconnecting: once the
\* pipeline thread has ended the event is set, or a thread of the host still
\* has a step to take.
C11_ProcessExitTriggersTeardown ==
    PipelineEnded => (stop_heartbeat \/ ENABLED HostThreadStep)

\* run_server has returned: after the stop_server of its finally (line 483), or
\* from a failed pre-flight check
RunServerReturned ==
    \/ srv.pc = "s_stopping" /\ stp["srv"] \in {"returned", "raised"}
    \/ srv.pc = "s_returned"

\* a step of a thread of the host while it is being stopped (no viewer
\* arrives or leaves)
HostStopStep ==
    \/ ServerSteps
    \/ SrvAudioTimeout
    \/ SrvAcceptError
    \/ SrvAudioError
    \/ \E i \in Callers : StopServer(i)
    \/ \E t \in Threads : Media(t)
    \/ Heartbeat

\* C12: after stop_server, invoked from the GUI at any point, has run to its
\* end, run_server leaves its loop and returns, and the heartbeat thread it
\* joins ends: until run_server has returned some thread of the host still has
\* a step to take.
C12_StopEndsRunServer ==
    stp["gui"] = "returned" => (RunServerReturned \/ ENABLED HostStopStep)

\* C13: an error on a viewer's channel ends at most that session: as long as
\* nobody stops the host, a started host keeps is_running true and its video
\* listener open, and run_server stays in its accept loop.
C13_SessionScopedRecovery ==
    (gui = "idle" /\ srv.pc # "s_start")
        => /\ is_running
           /\ server_socket # None /\ lclosed["vsock"] = 0
           /\ srv.pc \notin {"s_final", "s_stopping"}

\* a capability the selected encoder mode requires is missing: ffmpeg for
\* FFmpeg mode; Pillow and a capture provider for Legacy mode
RequiredMissing ==
    IF encoder_mode = "FFmpeg" THEN ~host.ffmpeg
    ELSE ~host.pillow \/ ~host.capture

\* C14: start fails with a startup error (server_startup_failed_signal, no
\* session ever accepted) when a capability required for the selected mode is
\* missing or a listener port cannot be bound, and it does not fail because of
\* a capability only the other mode needs.
C14_StartupFailsIffRequired ==
    srv.pc # "s_start" =>
        IF RequiredMissing \/ ~host.ports
        THEN startup_failed_emits > 0 /\ nconn = 0
        ELSE startup_failed_emits = 0

\* C15: a host without the input-injection capability binds no control
\* listener, and that only disables remote input: the PyViewer client that
\* connects to it is not turned away for the missing control channel.
C15_NoControlOnlyDisablesInput ==
    ~host.pynput =>
        /\ control_socket_listener = None
        /\ wrk.why # "control refused"

\* C16: in a Legacy session whose audio accept timed out or raised, the
\* session is not failed: audio_client_conn is None, no audio thread is
\* started, run_server goes on to start the pipeline, and from then on the
\* pipeline thread and the heartbeat thread of that session have been started.
C16_AudioAbsenceKeepsSession ==
    srv.audio \in {"timeout", "error"} =>
        /\ audio_client_conn = None
        /\ aud.pc = "none"
        /\ IF srv.pc \in {"s_ssclear", "s_tnew"}
           THEN ~srv.brk
           ELSE /\ thr[SessionThread(nconn)].sess = nconn
                /\ hb # "none"

\* C16 witness: a Legacy session streams video after its audio accept timed
\* out.
C16_Witness ==
    /\ srv.pc = "s_hbjoin"
    /\ srv.mode_byte = "L"
    /\ srv.audio = "timeout"
    /\ thr[SessionThread(nconn)].pc = "l_send"
    /\ hb = "run"
    /\ audio_client_conn = None

\* C17: a malformed control line does not break the channel: the handler of a
\* control connection ends only when the host is stopping the channel
\* (is_running false, _stop_control_event set, the connection closed) or the
\* peer is gone, never because of what a line contains.
C17_MalformedLineKeepsChannel ==
    [][(hcc.pc # "done" /\ hcc'.pc = "done")
          => \/ ~is_running
             \/ stop_control
             \/ cch.closes > 0
             \/ cch.peer # "open"]_vars

\* the bytes of a sequence of lines, each followed by its newline
RECURSIVE Stream(_)
Stream(lines) ==
    IF lines = <<>> THEN <<>> ELSE Message(Head(lines)) \o Stream(Tail(lines))

\* the event each line of a sequence of sender-made lines stands for
EventsOf(lines) == [i \in 1..Len(lines) |-> lines[i][2]]

\* C18: for the events _send_control_event has sent, whatever the split of the
\* bytes into reads: the events dispatched are the first k events sent, each
\* once and in order, and what is buffered and in flight is exactly the bytes
\* of the other events; the buffer never holds a complete line.
C18_FramingIndependentOfReads ==
    "foreign" \notin {cch.pending, cch.from} =>
        /\ \E k \in 0..Len(cch.sent) :
              /\ hcc.dispatched = EventsOf(SubSeq(cch.sent, 1, k))
              /\ hcc.buffer \o cch.net
                     = Stream(SubSeq(cch.sent, k + 1, Len(cch.sent)))
        /\ \A i \in 1..Len(hcc.buffer) : hcc.buffer[i] # "\n"

\* C18 witness: two events were sent; a read ended inside the line of the
\* second, after the first was dispatched.
C18_Witness ==
    /\ cch.from = "worker"
    /\ Len(cch.sent) = 2
    /\ Len(hcc.dispatched) = 1
    /\ hcc.buffer # <<>>

\* C19: _send_control_event attempts a send only while the sender is not
\* flagged disabled; a send that fails flags it and writes nothing; while it
\* is flagged every event is dropped and nothing is written; and the flag is
\* cleared only by _connect_control_socket.
C19_SenderFireAndForget ==
    [][/\ wrk'.attempts > wrk.attempts
            => ~wrk.stop_control_send /\ wrk.control_socket_client # None
       /\ wrk'.failures > wrk.failures
            => wrk'.stop_control_send /\ cch'.net = cch.net
       /\ (wrk.stop_control_send /\ Calls' > Calls)
            => wrk'.dropped = wrk.dropped + 1 /\ cch' = cch
       /\ (wrk.stop_control_send /\ ~wrk'.stop_control_send)
            => wrk.pc = "w_control" /\ wrk'.control_socket_client # None]_vars

\* C19 witness: a send failed while the Worker was streaming, and the event
\* after it was dropped.
C19_Witness ==
    /\ wrk.pc = "w_stream"
    /\ wrk.failures = 1
    /\ wrk.attempts = 1
    /\ wrk.last = "dropped"

\* the host has moved the pointer
Injected == mouse.position # Elsewhere

\* C20: every pointer position that process_control_event injects for a
\* mouse_move lies inside the monitor rectangle: left <= x <= left + width - 1
\* and top <= y <= top + height - 1, whatever rel_x and rel_y are (values
\* outside [0, 1] included) and whether or not the viewer reported its size.
C20_InjectedInsideMonitor ==
    Injected =>
        /\ monitor_dims.left <= mouse.position[1]
        /\ mouse.position[1] <= monitor_dims.left + monitor_dims.width - 1
        /\ monitor_dims.top <= mouse.position[2]
        /\ mouse.position[2] <= monitor_dims.top + monitor_dims.height - 1

\* a move whose scaled target lies right of and above the rectangle has been
\* injected at the rectangle's top right pixel
C20_Witness ==
    /\ Injected
    /\ mouse.target[1] > monitor_dims.left + monitor_dims.width - 1
    /\ mouse.target[2] < monitor_dims.top
    /\ mouse.position = <<monitor_dims.left + monitor_dims.width - 1,
                          monitor_dims.top>>

\* the event the host has dispatched
TheEvent == hcc.dispatched[1]
MoveDispatched == hcc.dispatched # <<>> /\ TheEvent.type = "mouse_move"

\* C21: a mouse_move is dropped, with no injected move, exactly when the
\* viewer reported its size and the position lies in the padding band: with
\* scale the ratio of the smaller to the larger aspect and offset =
\* (1 - scale) / 2, rel_y < offset or rel_y > 1 - offset when the viewer
\* surface is relatively wider than the capture, rel_x < offset or rel_x >
\* 1 - offset when it is relatively taller. Positions outside the band are
\* never dropped.
C21_DroppedIffInBand ==
    MoveDispatched =>
        LET ev == TheEvent
            g == GCD(ev.client_video_width * monitor_dims.height,
                     monitor_dims.width * ev.client_video_height)
            viewer == (ev.client_video_width * monitor_dims.height) \div g
            capture == (monitor_dims.width * ev.client_video_height) \div g
            small == IF viewer < capture THEN viewer ELSE capture
            large == IF viewer < capture THEN capture ELSE viewer
            \* rel / den < (1 - small / large) / 2
            below(rel) == 2 * large * rel < ev.den * (large - small)
            \* rel / den > 1 - (1 - small / large) / 2
            above(rel) == 2 * large * rel > ev.den * (large + small)
            reported == ev.client_video_width > 0 /\ ev.client_video_height > 0
            band == \/ viewer > capture /\ (below(ev.rel_y) \/ above(ev.rel_y))
                    \/ viewer < capture /\ (below(ev.rel_x) \/ above(ev.rel_x))
        IN  /\ (mouse.last = "dropped") <=> (reported /\ band)
            /\ mouse.last = "dropped" => ~Injected
            /\ mouse.last # "dropped" => Injected

\* a position in the band right of the video of a relatively taller viewer
\* has been dropped
C21_Witness ==
    /\ MoveDispatched
    /\ mouse.last = "dropped"
    /\ TheEvent.client_video_width * monitor_dims.height
           < monitor_dims.width * TheEvent.client_video_height
    /\ 2 * TheEvent.rel_x > TheEvent.den

\* C22: a mouse_move outside the padding band that reports the viewer's size
\* has its padded axis corrected as (rel - offset) / scale before scaling,
\* the other axis is scaled as it is; and with a 2000x1000 viewer surface on
\* the 1920x1080 capture, rel_y = 0.03 is dropped and rel_y = 0.5 maps to
\* host y = 540.
C22_PaddedAxisCorrected ==
    MoveDispatched =>
        LET ev == TheEvent
            m == monitor_dims
            g == GCD(ev.client_video_width * m.height,
                     m.width * ev.client_video_height)
            viewer == (ev.client_video_width * m.height) \div g
            capture == (m.width * ev.client_video_height) \div g
            small == IF viewer < capture THEN viewer ELSE capture
            large == IF viewer < capture THEN capture ELSE viewer
            \* int(((rel / den - (1 - small / large) / 2) / (small / large))
            \*     * dim)
            padded(rel, dim) ==
                Trunc((2 * large * rel - ev.den * (large - small)) * dim,
                      2 * ev.den * small)
            plain(rel, dim) == Trunc(rel * dim, ev.den)
            reported == ev.client_video_width > 0 /\ ev.client_video_height > 0
            example == m = Fallback /\ ev \in ExampleMoves
        IN  /\ (reported /\ mouse.last = "moved") =>
                mouse.target =
                    <<(IF viewer < capture THEN padded(ev.rel_x, m.width)
                       ELSE plain(ev.rel_x, m.width)) + m.left,
                      (IF viewer > capture THEN padded(ev.rel_y, m.height)
                       ELSE plain(ev.rel_y, m.height)) + m.top>>
            /\ (example /\ ev.rel_y = 3) => mouse.last = "dropped"
            /\ (example /\ ev.rel_y = 50) =>
                   mouse.last = "moved" /\ mouse.position[2] = 540

\* the example's second event has been dispatched on the 1920x1080 capture
\* and the pointer is at y = 540
C22_Witness ==
    /\ MoveDispatched
    /\ monitor_dims = Fallback
    /\ TheEvent \in ExampleMoves
    /\ TheEvent.rel_y = 50
    /\ mouse.position = <<960, 540>>

\* C23: a mouse_move that carries no viewer size (width or height missing or
\* zero), or whose viewer has the aspect ratio of the capture, is never
\* dropped and moves the pointer to floor(rel_x * width) + left,
\* floor(rel_y * height) + top, clamped to the rectangle.
C23_NaiveScale ==
    MoveDispatched =>
        LET ev == TheEvent
            m == monitor_dims
            naive == \/ ev.client_video_width = 0
                     \/ ev.client_video_height = 0
                     \/ ev.client_video_width * m.height
                            = m.width * ev.client_video_height
            clamped(v, lo, hi) == IF v < lo THEN lo ELSE IF v > hi THEN hi ELSE v
        IN  naive =>
                /\ mouse.last = "moved"
                /\ mouse.position =
                     <<clamped(((ev.rel_x * m.width) \div ev.den) + m.left,
                               m.left, m.left + m.width - 1),
                       clamped(((ev.rel_y * m.height) \div ev.den) + m.top,
                               m.top, m.top + m.height - 1)>>

\* an event with a zero viewer width and a position left of and inside the
\* video has moved the pointer to the left edge
C23_Witness ==
    /\ MoveDispatched
    /\ TheEvent.client_video_width = 0
    /\ TheEvent.client_video_height > 0
    /\ TheEvent.rel_x < 0
    /\ TheEvent.rel_y > 0
    /\ mouse.last = "moved"
    /\ mouse.position[1] = monitor_dims.left

\* the host pixel the user pointed at
PointedAt ==
    <<monitor_dims.left + wrk.pointed[1], monitor_dims.top + wrk.pointed[2]>>

\* C24: pointer round trip. For every pixel p of the monitor rectangle and
\* every size of the viewer's widget, letterboxed or pillarboxed, the
\* position at which the viewer shows p, normalized by on_move and mapped by
\* the host's mouse_move handling, moves the host pointer to within one pixel
\* of p on each axis.
C24_PointerRoundTrip ==
    wrk.pointed # <<>> =>
        /\ Injected
        /\ mouse.position[1] - PointedAt[1] \in -1..1
        /\ mouse.position[2] - PointedAt[2] \in -1..1

\* In the sessions in which the viewer knows the aspect ratio of the picture
\* it shows, Legacy sessions and FFmpeg sessions of a 16:9 capture, the round
\* trip is exact.
RoundTripKnownAspect ==
    (/\ wrk.pointed # <<>>
     /\ \/ encoder_mode = "Legacy"
        \/ monitor_dims.width * 9 = 16 * monitor_dims.height) =>
        /\ Injected
        /\ mouse.position = PointedAt

\* C25: Legacy frame round trip. Whatever images the host sends, each as a
\* 4-byte big-endian length N and N bytes, and however the bytes are cut into
\* recv chunks, the viewer reads exactly the length and then exactly N bytes
\* of each frame: the images it has handed to the window are the first
\* images sent, unchanged and in order, and the bytes it holds are the
\* bytes of the frame it is reading.
C25_LegacyFrameRoundTrip ==
    wrk.pc = "w_stream" /\ wrk.mode = "L" =>
        /\ Len(wrk.frames) <= Len(host.images)
        /\ wrk.frames = SubSeq(host.images, 1, Len(wrk.frames))
        /\ SubSeq(conn[WorkerConn].wire, 1, wrk.got)
             = FrameStream(wrk.frames)
                 \o (IF wrk.want = "image" THEN Pack(wrk.n) ELSE <<>>)
                 \o wrk.data
        /\ wrk.want = "image" => wrk.n = Len(host.images[Len(wrk.frames) + 1])

\* every image of a session of MaxFrames images has arrived, in more reads
\* than _recv_all calls
C25_Witness ==
    /\ wrk.pc = "w_stream"
    /\ wrk.mode = "L"
    /\ Len(host.images) = MaxFrames
    /\ wrk.frames = host.images
    /\ wrk.reads > 2 * MaxFrames

\* C26: each pipeline start uses one consistent snapshot of StreamConfig: the
\* rate and muted values stream_ffmpeg builds its command from were the
\* values of the settings at one and the same moment, also when the settings
\* owner changes several fields while the pipeline starts.
C26_ConsistentSnapshot ==
    \A t \in Threads :
        command[t].read = 2 =>
            <<command[t].rate, command[t].is_muted>> \in command[t].seen

\* C27: the host's dispatch swallows unknown input. A keyboard_press or
\* keyboard_release whose key name is no member of keyboard.Key, and an event
\* of a type that is none of the five handled (the viewer's keyboard_type),
\* inject nothing: no key is pressed or released, the pointer is not moved;
\* and the handler goes on with its loop.
C27_UnknownInputSwallowed ==
    (/\ hcc.dispatched # <<>>
     /\ \/ TheEvent.type = "keyboard_type"
        \/ /\ TheEvent.type \in {"keyboard_press", "keyboard_release"}
           /\ TheEvent.name[Len(TheEvent.name)] \notin KeyMembers) =>
        /\ keyboard = {}
        /\ ~Injected
        /\ hcc.pc = "h_loop"

\* the press of a key named "Key.nope" has been dispatched and the handler
\* is at its loop
C27_Witness ==
    /\ hcc.dispatched # <<>>
    /\ TheEvent.type = "keyboard_press"
    /\ TheEvent.name = <<"Key", "nope">>
    /\ keyboard = {}
    /\ hcc.pc = "h_loop"

\* a stop_server call i passes line 880 and the write of the configuration
\* file fails there
SaveFails(i) ==
    /\ stp[i] = "ss_lnull"
    /\ stp'[i] # "ss_lnull"
    /\ config_file'.errors # config_file.errors

\* C28: a failure to persist the settings is logged and not fatal. When the
\* write of the configuration file fails inside stop_server, stop_server
\* still completes, every socket field (the three listeners and the three
\* connections) is None, and server_stopped_signal is emitted.
C28_SaveFailureNotFatal ==
    [][\A i \in {"srv", "gui"} : SaveFails(i) =>
          /\ stp'[i] = "returned"
          /\ stopped_emits' = Bump(stopped_emits)
          /\ server_socket' = None
          /\ audio_socket' = None
          /\ control_socket_listener' = None
          /\ client_conn' = None
          /\ audio_client_conn' = None
          /\ control_client_conn' = None]_vars

\* what holds of the same call: it returns, the signal is emitted, and the
\* listener fields are None and the listeners closed
SaveFailureListeners ==
    [][\A i \in {"srv", "gui"} : SaveFails(i) =>
          /\ stp'[i] = "returned"
          /\ stopped_emits' = Bump(stopped_emits)
          /\ server_socket' = None
          /\ audio_socket' = None
          /\ control_socket_listener' = None
          /\ lclosed'["vsock"] > 0]_vars

\* C29: the monitor geometry is immutable after resolution. Whatever
\* sessions, restarts, control events and teardowns occur, no step changes
\* monitor_dims; and when the capture provider has given no monitor, its
\* value is 1920x1080 at the origin.
C29_GeometryImmutable ==
    /\ [](Unresolved(host.provider) => monitor_dims = Fallback)
    /\ [][monitor_dims' = monitor_dims]_vars

\* the provider raised, a session has been restarted and torn down, and a
\* control event has moved the pointer
C29_Witness ==
    /\ host.provider.raises
    /\ monitor_dims = Fallback
    /\ nrst > 0
    /\ \E c \in Conns : conn[c].closes > 0
    /\ hcc.dispatched # <<>>
    /\ mouse.position # Elsewhere

\* C30: a pipeline thread terminates and nulls only the encoder process it
\* launched itself. In every step in which a stream_ffmpeg thread t runs its
\* cleanup (lines 726-729), a process launched by another thread that is
\* running stays running, and stays in media_process if it was there.
C30_CleanupOwnProcessOnly ==
    [][\A t \in Threads :
          (thr[t].pc = "f_fin" /\ thr'[t].pc = "done") =>
              \A u \in Threads \ {t} :
                  proc[u] = "alive" =>
                      /\ proc'[u] = "alive"
                      /\ media_process = u => media_process' = u]_vars

\* C31: at most one video pipeline thread writes to the video connection.
\* Once a restart_ffmpeg_stream call has returned and its new thread is the
\* one in _media_thread, no other stream_ffmpeg thread completes a sendall
\* (lines 716-717) on client_conn.
C31_OldThreadSilent ==
    [][\A t \in Threads : \A r \in Restarts :
          ~(/\ thr[t].pc = "f_send"
            /\ thr'[t].pc = "f_loop"
            /\ rst[r].pc = "done"
            /\ media_thread = RestartThread(r)
            /\ t # RestartThread(r))]_vars

\* C32: whenever the host has sent mode byte 'L' to a viewer (line 383), the
\* companion audio listener is bound, whatever the encoder mode was when
\* run_server started.
C32_LegacyByteHasAudioListener ==
    (srv.pc = "s_hbclear" /\ srv.mode_byte = "L") => audio_socket # None

\* C33: a control connection keeps being serviced until it fails itself or
\* its session is torn down. In every step in which the handler thread of a
\* connection k ends (lines 532-536), every other connection j that is
\* being serviced keeps its stop signal unset, stays open, and stays in
\* control_client_conn if it was there.
C33_OlderHandlerLeavesNewer ==
    [][\A k \in ControlConns : \A j \in ControlConns \ {k} :
          (/\ Serviced(k)
           /\ ctl'[k].pc = "done"
           /\ Serviced(j)
           /\ ctl[j].closes = 0) =>
              /\ stop_control' = stop_control
              /\ ctl'[j].closes = 0
              /\ control_client_conn = j => control_client_conn' = j]_vars

\* C34: the host injects input events only while a video session is
\* active. Every connection on which an event has been dispatched was
\* accepted by the listener while client_conn was not None.
C34_EventsOnlyInSession ==
    \A k \in ControlConns : ctl[k].dispatched > 0 => ctl[k].session # None

\* C35: in a Legacy session whose audio connection was accepted, the audio
\* thread never leaves its loop (line 750) because of the stop event that
\* the preceding cleanup pass left set, while run_server has not yet
\* cleared it for the session (line 410) and parec is running.
C35_AudioLoopRuns ==
    [][~(/\ aud.pc = "a_loop"
         /\ aud'.pc = "done"
         /\ srv.pc = "s_ssclear"
         /\ srv.audio = "accepted"
         /\ is_running
         /\ stop_stream
         /\ aud.parec = "alive")]_vars

C37_RateAndQualityNoRestart ==
    [][/\ (screen_capture_rate' # screen_capture_rate
               \/ jpeg_quality' # jpeg_quality) =>
              /\ proc' = proc
              /\ thr' = thr
              /\ media_process' = media_process
              /\ media_thread' = media_thread
              /\ rst' = rst /\ nrst' = nrst
              /\ \A t \in Threads :
                    /\ command'[t].rate = command[t].rate
                    /\ command'[t].quality = command[t].quality
       /\ \A t \in Threads :
              /\ (thr[t].pc = "l_loop" /\ thr'[t].pc = "l_send") =>
                    /\ command'[t].rate = screen_capture_rate
                    /\ command'[t].quality = jpeg_quality
              /\ (thr[t].pc = "f_popen" /\ command[t].read = 0
                      /\ command'[t].read = 1) =>
                    command'[t].rate = screen_capture_rate]_vars

\* after the mode byte of a Legacy session, the thread that run_server
\* started for it is capturing a frame with a rate and a quality that the
\* sliders were moved to, and nothing was restarted
C37_Witness ==
    \E t \in Threads :
        /\ thr[t].kind = "L"
        /\ thr[t].pc = "l_send"
        /\ t = SessionThread(thr[t].sess)
        /\ conn[thr[t].sess].wire = <<"L">>
        /\ command[t].rate = 60
        /\ command[t].quality = 50
        /\ nrst = 0

\* C38: restart_ffmpeg_stream is a no-op when its precondition fails. A
\* restart thread that tests line 612 while the server is not running, the
\* mode is not FFmpeg or no viewer is connected returns at once: the stop
\* event, _media_thread, media_process, the pipeline threads and the
\* encoder processes are as before.
C38_RefusedRestartIsNoOp ==
    [][\A r \in Restarts :
          (/\ rst[r].pc = "r_lock"
           /\ rst'[r].pc # "r_lock"
           /\ ~is_running \/ encoder_mode # "FFmpeg" \/ client_conn = None) =>
              /\ rst'[r].pc = "done"
              /\ stop_stream' = stop_stream
              /\ media_thread' = media_thread
              /\ media_process' = media_process
              /\ thr' = thr
              /\ proc' = proc]_vars

\* the viewer has gone and its session is torn down; a restart requested
\* during the session has returned without starting a thread, and the stop
\* event the cleanup set is still set
C38_Witness ==
    \E r \in Restarts :
        /\ rst[r].pc = "done"
        /\ thr[RestartThread(r)].pc = "none"
        /\ client_conn = None
        /\ stop_stream
        /\ media_thread = None

\* C39: disconnect() of the viewer is exactly-once under any number of
\* calls from the GUI thread and the worker thread: disconnected_signal is
\* never emitted twice, the player is terminated at most once, close() is
\* called at most once on each socket, and once the stop event is set and no
\* call is in progress the signal has been emitted.
C39_DisconnectExactlyOnce ==
    /\ client_worker.emits <= 1
    /\ client_worker.terminates <= 1
    /\ \A s \in ViewerSockets : client_worker.closes[s] <= 1
    /\ (/\ client_worker.stop_event
        /\ \A t \in ViewerThreads : client_worker.d[t] = "idle") =>
           client_worker.emits = 1

\* C40: whenever connect_and_run has returned the worker is disconnected:
\* stop_event is set, disconnected_signal has been emitted and no socket the
\* Worker opened is still open.
C40_ReturnedIsDisconnected ==
    client_worker.pc = "returned" =>
        /\ client_worker.stop_event
        /\ client_worker.emits >= 1
        /\ \A s \in ViewerSockets : client_worker.socks[s] # "open"

\* the same for the connections in which the host's first byte is 'F' or
\* 'L', or never arrives, and stop_connection is not called
ReturnedOnKnownMode ==
    (/\ client_worker.pc = "returned"
     /\ client_worker.mode \in {"", "F", "L"}
     /\ client_worker.stops = 0) =>
        /\ client_worker.stop_event
        /\ client_worker.emits = 1
        /\ \A s \in ViewerSockets : client_worker.socks[s] # "open"

====
